---- MODULE Spec2Model ----
(***************************************************************************)
(* A model of the oznak aggregation pipeline:                              *)
(*   - the query builder (src/src/query/builder.py),                       *)
(*   - the concurrent fetcher (src/src/services/multi_database_fetcher.py),*)
(*   - the production-line combination (src/modules/db_connector.py) with  *)
(*     the module manager, the session and the combine-lines command,      *)
(*   - the quality statistics of the analyzer (src/modules/analyzer.py).   *)
(* Python strings are sequences of one-character strings, so that split,   *)
(* upper, join and the identifier regex are computed, not assumed.         *)
(***************************************************************************)
EXTENDS Integers, Sequences, FiniteSets, TLC

VARIABLES
    \* ---- parse_filter_string (one call)
    ppc,            \* "ready" | "done"
    intent,         \* the (column, operator, value) the caller wrote the string from
    filter_str,     \* the argument of parse_filter_string
    parse_ret,      \* what the call returned or raised
    validate_ret,   \* what parse_filters of filter_parser.py did with [filter_str]
    \* ---- build_query (one call)
    bpc,            \* "ready" | "done"
    bq_args,        \* [table, filters, limit, date_column]
    bq_ret,         \* what the call returned or raised
    \* ---- MultiDatabaseFetcher.fetch (one call)
    fpc,            \* the calling thread: "ready" | "pool" | "collecting" | "returned"
    build_query_binding, \* what the name build_query of the fetcher module is bound to
    fetch_args,     \* [databases, filters, limit, date_column]
    engines,        \* DBManager.engines: source name -> engine, 0 when absent
    unit,           \* the fetch units (futures), by position in databases
    frames,         \* the local list frames of fetch
    collected,      \* the futures as_completed has yielded
    fetch_ret,      \* the table fetch returned
    \* ---- production-line combination and the session it runs in
    cpc,            \* "prompt": the shell is ready for the next oznak command
    db_configs,     \* the configured production lines, in configuration order
    merge_strategy, \* combination.merge_strategy of the configuration
    source,         \* line name -> what loading its table gives
    session,        \* the content of oznak_session.json
    data_store,     \* the parquet files under data/, by dataset name
    module_result,  \* the ModuleResult of the last command
    stdout,         \* what the last command printed
    now,            \* the clock pd.Timestamp.now() reads
    \* ---- the statistics of one analysed column
    apc,            \* "ready" | "done"
    an_args,        \* [data, usl, lsl, thresholds, has_source, column, missing, filtered]
    an_ret          \* the dict returned by _analyze

parseVars == <<ppc, intent, filter_str, parse_ret, validate_ret>>
buildVars == <<bpc, bq_args, bq_ret>>
fetchVars == <<fpc, build_query_binding, fetch_args, engines, unit, frames, collected, fetch_ret>>
combineVars == <<cpc, db_configs, merge_strategy, source, session, data_store, module_result, stdout, now>>
analyzeVars == <<apc, an_args, an_ret>>
vars == <<parseVars, buildVars, fetchVars, combineVars, analyzeVars>>

-----------------------------------------------------------------------------
(* Bounds of the model *)

MaxValueTokens == 2
MaxFilters == 2
MaxSources == 2
MaxRows == 2
MaxTableRows == 2
\* the largest number of combine-lines commands of one session
MaxCombines == 2

-----------------------------------------------------------------------------
(* Python str primitives *)

Whitespace == {" ", "\t", "\n"}

LowerLetters == <<"a","b","c","d","e","f","g","h","i","j","k","l","m",
                  "n","o","p","q","r","s","t","u","v","w","x","y","z">>
UpperLetters == <<"A","B","C","D","E","F","G","H","I","J","K","L","M",
                  "N","O","P","Q","R","S","T","U","V","W","X","Y","Z">>
Letters == {LowerLetters[i] : i \in 1..26} \cup {UpperLetters[i] : i \in 1..26}
Digits == {"0","1","2","3","4","5","6","7","8","9"}
DigitSeq == <<"0","1","2","3","4","5","6","7","8","9">>

\* str.upper() on one character
UpperChar(c) ==
    IF \E i \in 1..26 : LowerLetters[i] = c
    THEN UpperLetters[CHOOSE i \in 1..26 : LowerLetters[i] = c]
    ELSE c

\* str.upper()
StrUpper(s) == [i \in 1..Len(s) |-> UpperChar(s[i])]

\* sep.join(parts)
RECURSIVE StrJoin(_, _)
StrJoin(sep, parts) ==
    IF Len(parts) = 0 THEN <<>>
    ELSE IF Len(parts) = 1 THEN parts[1]
    ELSE parts[1] \o sep \o StrJoin(sep, Tail(parts))

\* str.split() without argument: split on runs of whitespace, no empty parts
RECURSIVE SplitWs(_, _, _)
SplitWs(s, cur, acc) ==
    IF Len(s) = 0
    THEN IF Len(cur) = 0 THEN acc ELSE Append(acc, cur)
    ELSE IF Head(s) \in Whitespace
         THEN SplitWs(Tail(s), <<>>, IF Len(cur) = 0 THEN acc ELSE Append(acc, cur))
         ELSE SplitWs(Tail(s), Append(cur, Head(s)), acc)

StrSplit(s) == SplitWs(s, <<>>, <<>>)

\* str.split(',') : split at every comma, empty parts are kept
RECURSIVE SplitAt(_, _, _, _)
SplitAt(s, ch, cur, acc) ==
    IF Len(s) = 0 THEN Append(acc, cur)
    ELSE IF Head(s) = ch
         THEN SplitAt(Tail(s), ch, <<>>, Append(acc, cur))
         ELSE SplitAt(Tail(s), ch, Append(cur, Head(s)), acc)

StrSplitOn(s, ch) == SplitAt(s, ch, <<>>, <<>>)

\* str.strip()
RECURSIVE LStrip(_)
LStrip(s) == IF Len(s) > 0 /\ Head(s) \in Whitespace THEN LStrip(Tail(s)) ELSE s
RECURSIVE RStrip(_)
RStrip(s) ==
    IF Len(s) > 0 /\ s[Len(s)] \in Whitespace THEN RStrip(SubSeq(s, 1, Len(s) - 1)) ELSE s
StrStrip(s) == RStrip(LStrip(s))

\* str(n) of a non-negative int
RECURSIVE IntText(_)
IntText(n) == IF n < 10 THEN <<DigitSeq[n + 1]>> ELSE IntText(n \div 10) \o <<DigitSeq[(n % 10) + 1]>>

\* re.match(r"^[a-zA-Z_][a-zA-Z0-9_]*$", s): "$" also matches before one final newline
IdentBody(s) ==
    /\ Len(s) >= 1
    /\ s[1] \in Letters \cup {"_"}
    /\ \A i \in 2..Len(s) : s[i] \in Letters \cup Digits \cup {"_"}

IdentifierMatch(s) ==
    \/ IdentBody(s)
    \/ Len(s) >= 2 /\ s[Len(s)] = "\n" /\ IdentBody(SubSeq(s, 1, Len(s) - 1))

-----------------------------------------------------------------------------
(* parse_filter_string, src/src/query/builder.py *)

allowed_operators == {
    <<"=">>, <<"!", "=">>, <<"<", ">">>, <<"<">>, <<">">>, <<"<", "=">>, <<">", "=">>,
    <<"L", "I", "K", "E">>, <<"N", "O", "T", " ", "L", "I", "K", "E">>,
    <<"I", "N">>, <<"N", "O", "T", " ", "I", "N">>,
    <<"I", "S">>, <<"I", "S", " ", "N", "O", "T">> }

Raised(kind) == [status |-> kind, column |-> <<>>, operator |-> <<>>, value |-> <<>>]

\* parse_filter_string without the operator check of lines 26-27
parse_filter_string_any_operator(s) ==
    LET parts == StrSplit(s) IN
    IF Len(parts) < 3 THEN Raised("ValueError")
    ELSE LET column   == parts[1]
             operator == StrUpper(parts[2])
             value    == StrJoin(<<" ">>, SubSeq(parts, 3, Len(parts)))
         IN IF ~IdentifierMatch(column) THEN Raised("ValueError")
            ELSE [status |-> "ok", column |-> column, operator |-> operator, value |-> value]

parse_filter_string(s) ==
    LET parts == StrSplit(s) IN
    IF Len(parts) < 3 THEN Raised("ValueError")
    ELSE LET column   == parts[1]
             operator == StrUpper(parts[2])
             value    == StrJoin(<<" ">>, SubSeq(parts, 3, Len(parts)))
         IN IF ~IdentifierMatch(column) THEN Raised("ValueError")
            ELSE IF operator \notin allowed_operators THEN Raised("ValueError")
            ELSE [status |-> "ok", column |-> column, operator |-> operator, value |-> value]

-----------------------------------------------------------------------------
(* build_query, src/src/query/builder.py *)

SelectFrom == <<"S", "E", "L", "E", "C", "T", " ", "*", " ", "F", "R", "O", "M", " ">>
WhereKw == <<" ", "W", "H", "E", "R", "E", " ">>
AndKw == <<" ", "A", "N", "D", " ">>
OrderByKw == <<" ", "O", "R", "D", "E", "R", " ", "B", "Y", " ">>
DescLimitKw == <<" ", "D", "E", "S", "C", " ", "L", "I", "M", "I", "T", " ">>
ParamPrefix == <<"p", "a", "r", "a", "m", "_">>
TrueText == <<"T", "r", "u", "e">>

OpLike == {<<"L", "I", "K", "E">>, <<"N", "O", "T", " ", "L", "I", "K", "E">>}
OpIn == {<<"I", "N">>, <<"N", "O", "T", " ", "I", "N">>}
OpIs == {<<"I", "S">>, <<"I", "S", " ", "N", "O", "T">>}

\* the identifier between two back-quotes, as the f-strings of lines 45-46 and 54 write it
\* The back-quote character (U+0060), which a TLA+ string literal cannot hold
BackQuote == "U+0060"

BackQuoted(name) == <<BackQuote>> \o name \o <<BackQuote>>

\* f"param_{param_counter}"
ParamName(n) == ParamPrefix \o IntText(n)

\* params[name] = value on an insertion-ordered dict, kept as a sequence of items
DictSet(d, name, value) ==
    IF \E i \in 1..Len(d) : d[i].name = name
    THEN [i \in 1..Len(d) |-> IF d[i].name = name THEN [name |-> name, value |-> value] ELSE d[i]]
    ELSE Append(d, [name |-> name, value |-> value])

\* Python values a caller can pass as limit
PyNone == [type |-> "NoneType", v |-> 0, s |-> <<>>]
PyInt(n) == [type |-> "int", v |-> n, s |-> <<>>]
PyBool(b) == [type |-> "bool", v |-> IF b THEN 1 ELSE 0, s |-> <<>>]
PyStr(t) == [type |-> "str", v |-> 0, s |-> t]
\* a float, held in tenths: PyFloat(25) is 2.5
PyFloat(tenths) == [type |-> "float", v |-> tenths, s |-> <<>>]

\* bool(x), as "if limit:" evaluates it
Truthy(x) ==
    CASE x.type = "NoneType" -> FALSE
      [] x.type = "str" -> Len(x.s) > 0
      [] OTHER -> x.v # 0

\* isinstance(x, int): bool is a subclass of int
IsInstanceInt(x) == x.type \in {"int", "bool"}

\* f"{limit}" for the values that reach line 93
LimitText(x) == IF x.type = "bool" THEN TrueText ELSE IntText(x.v)

BuildRaised(kind) ==
    [status |-> kind, query |-> <<>>, params |-> <<>>, where_conditions |-> <<>>]

\* lines 62-70: one placeholder per comma-separated, stripped literal
RECURSIVE InPlaceholders(_, _, _, _)
InPlaceholders(values, placeholders, params, param_counter) ==
    IF Len(values) = 0
    THEN [placeholders |-> placeholders, params |-> params, param_counter |-> param_counter]
    ELSE LET param_name == ParamName(param_counter) IN
         InPlaceholders(Tail(values),
                        Append(placeholders, <<":">> \o param_name),
                        DictSet(params, param_name, Head(values)),
                        param_counter + 1)

\* EmitCondition writing the value of a scalar comparison into the text, quoted
EmitCondition_inlined(f, params, param_counter) ==
    [condition |-> BackQuoted(f.column) \o <<" ">> \o f.operator \o <<" ", "'">> \o f.value \o <<"'">>,
     params |-> params,
     param_counter |-> param_counter]

\* lines 56-81: the condition of one parsed filter, with the parameters it binds
EmitCondition(f, params, param_counter) ==
    LET safe_column == BackQuoted(f.column)
        param_name == ParamName(param_counter)
        scalar == [condition |-> safe_column \o <<" ">> \o f.operator \o <<" ", ":">> \o param_name,
                   params |-> DictSet(params, param_name, f.value),
                   param_counter |-> param_counter + 1]
    IN
    IF f.operator \in OpLike THEN scalar
    ELSE IF f.operator \in OpIn
    THEN LET raw == StrSplitOn(f.value, ",")
             values == [i \in 1..Len(raw) |-> StrStrip(raw[i])]
             r == InPlaceholders(values, <<>>, params, param_counter)
         IN [condition |-> safe_column \o <<" ">> \o f.operator \o <<" ", "(">>
                             \o StrJoin(<<",">>, r.placeholders) \o <<")">>,
             params |-> r.params,
             param_counter |-> r.param_counter]
    ELSE IF f.operator \in OpIs
    THEN [condition |-> safe_column \o <<" ">> \o f.operator \o <<" ">> \o f.value,
          params |-> params,
          param_counter |-> param_counter]
    ELSE scalar

\* the loop putting each new condition in front of the earlier ones
RECURSIVE FilterLoop_prepend(_, _, _, _)
FilterLoop_prepend(filters, where_conditions, params, param_counter) ==
    IF Len(filters) = 0
    THEN [status |-> "ok", where_conditions |-> where_conditions, params |-> params]
    ELSE
      LET f == parse_filter_string(Head(filters)) IN
      IF f.status # "ok"
      THEN [status |-> f.status, where_conditions |-> <<>>, params |-> <<>>]
      ELSE LET e == EmitCondition(f, params, param_counter)
           IN FilterLoop_prepend(Tail(filters), <<e.condition>> \o where_conditions,
                                 e.params, e.param_counter)

\* lines 52-81: the loop over the filters; a rejected filter ends the call
RECURSIVE FilterLoop(_, _, _, _)
FilterLoop(filters, where_conditions, params, param_counter) ==
    IF Len(filters) = 0
    THEN [status |-> "ok", where_conditions |-> where_conditions, params |-> params]
    ELSE
      LET f == parse_filter_string(Head(filters)) IN
      IF f.status # "ok"
      THEN [status |-> f.status, where_conditions |-> <<>>, params |-> <<>>]
      ELSE LET e == EmitCondition(f, params, param_counter)
           IN FilterLoop(Tail(filters), Append(where_conditions, e.condition),
                         e.params, e.param_counter)

\* lines 89-93: the LIMIT clause; "raise" or the text to append
LimitClause(limit, safe_date_col) ==
    IF Truthy(limit)
    THEN IF ~IsInstanceInt(limit) \/ limit.v <= 0
         THEN [status |-> "ValueError", text |-> <<>>]
         ELSE [status |-> "ok",
               text |-> OrderByKw \o safe_date_col \o DescLimitKw \o LimitText(limit)]
    ELSE [status |-> "ok", text |-> <<>>]

build_query(table, filters, limit, date_column) ==
    IF ~IdentifierMatch(table) THEN BuildRaised("ValueError")
    ELSE IF ~IdentifierMatch(date_column) THEN BuildRaised("ValueError")
    ELSE
      LET safe_table == BackQuoted(table)
          safe_date_col == BackQuoted(date_column)
          loop == FilterLoop(filters, <<>>, <<>>, 0)
      IN
      IF loop.status # "ok" THEN BuildRaised(loop.status)
      ELSE
        LET base_query ==
              IF Len(loop.where_conditions) = 0
              THEN SelectFrom \o safe_table
              ELSE SelectFrom \o safe_table \o WhereKw
                     \o StrJoin(AndKw, loop.where_conditions)
            lim == LimitClause(limit, safe_date_col)
        IN IF lim.status # "ok" THEN BuildRaised(lim.status)
           ELSE [status |-> "ok", query |-> base_query \o lim.text,
                 params |-> loop.params, where_conditions |-> loop.where_conditions]

-----------------------------------------------------------------------------
(* parse_filter_string and parse_filters, src/src/services/filter_parser.py *)

\* lines 22-26: '>' '<=' are adjacent string literals, one string '><='
filter_parser_allowed_operators == {
    <<"=">>, <<"!", "=">>, <<"<", ">">>, <<"<">>, <<">", "<", "=">>, <<">", "=">>,
    <<"L", "I", "K", "E">>, <<"N", "O", "T", " ", "L", "I", "K", "E">>,
    <<"I", "N">>, <<"N", "O", "T", " ", "I", "N">>,
    <<"I", "S">>, <<"I", "S", " ", "N", "O", "T">> }

\* lines 4-33
filter_parser_parse_filter_string(s) ==
    LET parts == StrSplit(s) IN
    IF Len(parts) < 3 THEN Raised("ValueError")
    ELSE LET column   == parts[1]
             operator == StrUpper(parts[2])
             value    == StrJoin(<<" ">>, SubSeq(parts, 3, Len(parts)))
         IN IF ~IdentifierMatch(column) THEN Raised("ValueError")
            ELSE IF operator \notin filter_parser_allowed_operators THEN Raised("ValueError")
            ELSE [status |-> "ok", column |-> column, operator |-> operator, value |-> value]

\* parse_filters, lines 35-55: [] at the first invalid filter, else the dict
parse_filters(filters, last) ==
    IF \E i \in 1..Len(filters) : filter_parser_parse_filter_string(filters[i]).status # "ok"
    THEN [type |-> "list", filters |-> <<>>, limit |-> PyNone]
    ELSE [type |-> "dict", filters |-> filters, limit |-> last]

-----------------------------------------------------------------------------
(* The calls of parse_filter_string that are explored: the string is written  *)
(* from a column, an operator and a value, any of which may be left out,      *)
(* separated by one of the whitespace separators.                             *)

ColumnInputs == {<<"c", "1">>, <<"_", "a">>, <<"1", "c">>, <<"c", ";">>, <<>>}

OperatorInputs ==
    allowed_operators \cup
    {<<"l", "i", "k", "e">>, <<"n", "o", "t", " ", "i", "n">>, <<"=", "=">>, <<"O", "R">>, <<>>,
     <<">", "<", "=">>}

ValueTokens == {<<"X">>, <<"X", ",", "Z">>, <<"'">>, <<"N", "O", "T">>}

ValueInputs ==
    {StrJoin(<<" ">>, toks) :
        toks \in UNION {[1..n -> ValueTokens] : n \in 0..MaxValueTokens}}

Separators == {<<" ">>, <<" ", " ">>, <<"\t">>}

NonEmpty(s) == Len(s) > 0

ComposeFilter(i, sep) ==
    StrJoin(sep, SelectSeq(<<i.column, i.operator, i.value>>, NonEmpty))

NoParse == [status |-> "none", column |-> <<>>, operator |-> <<>>, value |-> <<>>]
NoValidate == [type |-> "none", filters |-> <<>>, limit |-> PyNone]
NoIntent == [column |-> <<>>, operator |-> <<>>, value |-> <<>>]
NoBuild == [status |-> "none", query |-> <<>>, params |-> <<>>, where_conditions |-> <<>>]
NoArgs == [table |-> <<>>, filters |-> <<>>, limit |-> PyNone, date_column |-> <<>>]

ParseIdle ==
    /\ ppc = "idle" /\ intent = NoIntent /\ filter_str = <<>> /\ parse_ret = NoParse
    /\ validate_ret = NoValidate

BuildIdle ==
    /\ bpc = "idle" /\ bq_args = NoArgs /\ bq_ret = NoBuild

FetchIdle ==
    /\ fpc = "idle" /\ build_query_binding = "repository"
    /\ fetch_args = [databases |-> <<>>, filters |-> <<>>, limit |-> PyNone, date_column |-> <<>>]
    /\ engines = <<>> /\ unit = <<>> /\ frames = <<>> /\ collected = {} /\ fetch_ret = <<>>

CombineIdle ==
    /\ cpc = "idle" /\ db_configs = <<>> /\ merge_strategy = "" /\ source = <<>>
    /\ session = <<>> /\ data_store = <<>> /\ module_result = <<>> /\ stdout = <<>>
    /\ now = 0

AnalyzeIdle ==
    /\ apc = "idle" /\ an_args = <<>> /\ an_ret = <<>>

ParseInit ==
    /\ ppc = "ready"
    /\ intent \in [column : ColumnInputs, operator : OperatorInputs, value : ValueInputs]
    /\ \E sep \in Separators : filter_str = ComposeFilter(intent, sep)
    /\ parse_ret = NoParse
    /\ validate_ret = NoValidate
    /\ BuildIdle /\ FetchIdle /\ CombineIdle /\ AnalyzeIdle

\* one call parse_filter_string(filter_str)
ParseFilterString ==
    /\ ppc = "ready"
    /\ parse_ret' = parse_filter_string(filter_str)
    /\ ppc' = "done"
    /\ UNCHANGED <<intent, filter_str, validate_ret, buildVars, fetchVars, combineVars, analyzeVars>>

\* cli/main.py line 27: parse_filters(filters, last) for the one filter
ParseFilters ==
    /\ ppc \in {"ready", "done"}
    /\ validate_ret = NoValidate
    /\ validate_ret' = parse_filters(<<filter_str>>, PyNone)
    /\ UNCHANGED <<ppc, intent, filter_str, parse_ret, buildVars, fetchVars, combineVars, analyzeVars>>

-----------------------------------------------------------------------------
(* The calls of build_query that are explored *)

FilterInputs == {
    <<"c", "1", " ", "=", " ", "X">>,
    <<"c", "1", " ", "l", "i", "k", "e", " ", "X", "'">>,
    <<"c", "1", " ", "I", "N", " ", "X", ",", " ", "Z", ",", "X">>,
    <<"c", "1", " ", "N", "O", "T", " ", "I", "N", " ", "X">>,
    <<"_", "a", " ", "I", "S", " ", "N", "O", "T", " ", "X">>,
    <<"_", "a", " ", "I", "S", " ", "X", "'", " ", "Z">>,
    <<"1", "c", " ", "=", " ", "X">>,
    <<"c", "1", " ", "=", "=", " ", "X">>,
    <<"c", "1", " ", "=">>,
    <<"_", "a", " ", ">", "=", " ", "Z">> }

TableInputs == {<<"t", "1">>, <<"t", " ", "1">>}

DateColumnInputs == {<<"D", "a", "t", "e">>, <<"d", ";">>}

LimitInputs ==
    {PyNone, PyInt(-1), PyInt(0), PyInt(1), PyInt(10), PyBool(TRUE), PyBool(FALSE),
     PyStr(<<"5">>), PyStr(<<>>), PyFloat(25), PyFloat(0)}

FilterLists == UNION {[1..n -> FilterInputs] : n \in 0..MaxFilters}

BuildInit ==
    /\ bpc = "ready"
    /\ bq_args \in [table : TableInputs, filters : FilterLists,
                    limit : LimitInputs, date_column : DateColumnInputs]
    /\ bq_ret = NoBuild
    /\ ParseIdle /\ FetchIdle /\ CombineIdle /\ AnalyzeIdle

\* one call build_query(table, filters, limit, date_column)
BuildQuery ==
    /\ bpc = "ready"
    /\ bq_ret' = build_query(bq_args.table, bq_args.filters, bq_args.limit, bq_args.date_column)
    /\ bpc' = "done"
    /\ UNCHANGED <<bq_args, parseVars, fetchVars, combineVars, analyzeVars>>

-----------------------------------------------------------------------------
(* The query builder: every explored call of either function *)

QueryInit == ParseInit \/ BuildInit

QueryNext == ParseFilterString \/ ParseFilters \/ BuildQuery

SpecQuery == QueryInit /\ [][QueryNext]_vars

-----------------------------------------------------------------------------
(* MultiDatabaseFetcher, src/src/services/multi_database_fetcher.py, with    *)
(* DBManager.get_engine (src/src/db/manager.py) and fetch_data               *)
(* (src/src/query/fetcher.py).                                               *)

\* the number of parameters of build_query
BuildQueryParams == 4
\* the number of positional arguments _fetch_single_database passes to it
BuildQueryCallArgs == 5

\* DBManager.cfg: the configured sources, their type and table
cfg == [db1 |-> [type |-> "mysql", table |-> <<"t", "1">>],
        db2 |-> [type |-> "mssql", table |-> <<"t", "2">>],
        db3 |-> [type |-> "oracle", table |-> <<"t", "3">>]]

\* the names a caller may ask for; dbX is not configured
SourceNames == {"db1", "db2", "db3", "dbX"}

NoEngine == [db |-> "", id |-> 0]
NoQuery == [query |-> <<>>, params |-> <<>>]

\* get_engine lines 14-18: raise for an unknown name, else the cached engine if any
GetEngineLookup(engs, database) ==
    IF database \notin DOMAIN cfg THEN "raise"
    ELSE IF engs[database] # NoEngine THEN "hit"
    ELSE "miss"

\* get_engine lines 24-31: only the two supported types get a connection string
SupportedType(database) == cfg[database].type \in {"mysql", "mssql"}

\* the call of line 20 under the repository's build_query: Python binds the
\* arguments before the body runs
CallRepositoryBuildQuery(table, filters, limit, date_column, nargs) ==
    IF nargs > BuildQueryParams
    THEN BuildRaised("TypeError")
    ELSE build_query(table, filters, limit, date_column)

\* the (query, params) a stand-in for build_query returns, as the test doubles
\* do: one bound parameter when filters are given, an empty params dict otherwise
StandInQuery(filters) ==
    [status |-> "ok",
     query |-> SelectFrom \o BackQuoted(<<"t">>),
     params |-> IF Len(filters) = 0 THEN <<>>
                ELSE <<[name |-> ParamName(0), value |-> <<"X">>]>>,
     where_conditions |-> <<>>]

\* rows 1..n of the table of source db, as read by unit u
ReadRows(u, db, n) == [k \in 1..n |-> [unit |-> u, origin |-> db, n |-> k, source_database |-> ""]]

\* a fetch_data that passes the params keyword in every call
fetch_data_always_params(query, params, outcome) ==
    [calls |-> <<[query |-> query, kwargs |-> {"params"}, params |-> params]>>,
     df |-> IF outcome.raised THEN <<>> ELSE outcome.rows]

\* fetch_data, fetcher.py lines 11-22: the calls of pd.read_sql it makes and
\* the frame it returns, the frame read or an empty frame when read_sql raises
fetch_data(query, params, outcome) ==
    [calls |-> IF Len(params) > 0
               THEN <<[query |-> query, kwargs |-> {"params"}, params |-> params]>>
               ELSE <<[query |-> query, kwargs |-> {}, params |-> <<>>]>>,
     df |-> IF outcome.raised THEN <<>> ELSE outcome.rows]

\* the frame as read, without the tag column
TagRows_untagged(df, database) == df

\* line 25: df["source_database"] = database
TagRows(df, database) == [k \in 1..Len(df) |-> [df[k] EXCEPT !.source_database = database]]

None == [isNone |-> TRUE, rows |-> <<>>]
Frame(rows) == [isNone |-> FALSE, rows |-> rows]

\* lines 24-30: what the unit returns for the frame fetch_data gave it
UnitResult(df, database) ==
    IF Len(df) > 0 THEN Frame(TagRows(df, database)) ELSE None

\* a failure of one unit discards the frames collected so far
CollectFrame_reset(fs, df) ==
    IF df.isNone THEN <<>> ELSE IF Len(df.rows) > 0 THEN Append(fs, df.rows) ELSE fs

\* a collection that appends a non-empty frame twice
CollectFrame_twice(fs, df) ==
    IF ~df.isNone /\ Len(df.rows) > 0 THEN Append(Append(fs, df.rows), df.rows) ELSE fs

\* lines 53-55: frames.append(df) for a result that is a non-empty frame
CollectFrame(fs, df) ==
    IF ~df.isNone /\ Len(df.rows) > 0 THEN Append(fs, df.rows) ELSE fs

\* pd.concat(frames, ignore_index=True)
RECURSIVE Concat(_)
Concat(fs) == IF Len(fs) = 0 THEN <<>> ELSE Head(fs) \o Concat(Tail(fs))

\* pd.concat without the guard of line 59: it raises for an empty list
FetchResult_unguarded(fs) ==
    IF Len(fs) = 0
    THEN <<[unit |-> 0, origin |-> "", n |-> 0, source_database |-> "ValueError"]>>
    ELSE Concat(fs)

\* lines 59-67
FetchResult(fs) == IF Len(fs) = 0 THEN <<>> ELSE Concat(fs)

\* a submitted unit; done_at is the position of the unit in the order in which
\* the units finish, 0 while it runs; fetched is what its fetch_data did
NewUnit == [pc |-> "start", engine |-> NoEngine, query |-> NoQuery, result |-> None,
            steps |-> <<>>, read |-> -1, failed |-> "", done_at |-> 0,
            fetched |-> [calls |-> <<>>, df |-> <<>>]]

Units == DOMAIN unit

\* the number of units that have finished
Finished == Cardinality({j \in DOMAIN unit : unit[j].pc = "done"})
Database(i) == fetch_args.databases[i]

FetchFilterInputs == {<<>>, << <<"c", "1", " ", "=", " ", "X">> >>}
FetchLimitInputs == {PyNone, PyInt(1)}

FetchInit ==
    /\ fpc = "ready"
    /\ build_query_binding \in {"repository", "stand_in"}
    /\ fetch_args = [databases |-> <<>>, filters |-> <<>>, limit |-> PyNone, date_column |-> <<>>]
    /\ engines = [n \in SourceNames |-> NoEngine]
    /\ unit = <<>> /\ frames = <<>> /\ collected = {} /\ fetch_ret = <<>>
    /\ ParseIdle /\ BuildIdle /\ CombineIdle /\ AnalyzeIdle

\* fetch lines 41-48: frames = [] and one submitted unit per element of databases
CallFetch ==
    /\ fpc = "ready"
    /\ \E n \in 0..MaxSources : \E dbs \in [1..n -> SourceNames] :
       \E fl \in FetchFilterInputs : \E lim \in FetchLimitInputs :
          /\ fetch_args' = [databases |-> dbs, filters |-> fl, limit |-> lim,
                            date_column |-> <<"D", "a", "t", "e">>]
          /\ unit' = [i \in 1..n |-> NewUnit]
    /\ frames' = <<>>
    /\ fpc' = "pool"
    /\ UNCHANGED <<build_query_binding, engines, collected, fetch_ret, parseVars, buildVars, combineVars, analyzeVars>>

\* a unit raised: the except clause of lines 31-33 makes it return None
Fail(i, stage, step) ==
    unit' = [unit EXCEPT ![i].pc = "done", ![i].result = None, ![i].failed = stage,
                         ![i].steps = Append(@, step), ![i].done_at = Finished + 1]

\* _fetch_single_database line 15, get_engine lines 14-18
UnitGetEngine(i) ==
    /\ fpc = "pool" /\ unit[i].pc = "start"
    /\ LET r == GetEngineLookup(engines, Database(i)) IN
       CASE r = "raise" -> Fail(i, "engine", "get_engine")
         [] r = "hit" -> unit' = [unit EXCEPT ![i].pc = "have_engine",
                                              ![i].engine = engines[Database(i)],
                                              ![i].steps = Append(@, "get_engine")]
         [] r = "miss" -> unit' = [unit EXCEPT ![i].pc = "creating",
                                               ![i].steps = Append(@, "get_engine")]
    /\ UNCHANGED <<fpc, build_query_binding, fetch_args, engines, frames, collected, fetch_ret,
                   parseVars, buildVars, combineVars, analyzeVars>>

\* get_engine lines 20-41: create the engine and store it in the registry
UnitCreateEngine(i) ==
    /\ fpc = "pool" /\ unit[i].pc = "creating"
    /\ IF SupportedType(Database(i))
       THEN LET e == [db |-> Database(i), id |-> i] IN
            /\ engines' = [engines EXCEPT ![Database(i)] = e]
            /\ unit' = [unit EXCEPT ![i].pc = "have_engine", ![i].engine = e]
       ELSE /\ unit' = [unit EXCEPT ![i].pc = "done", ![i].result = None, ![i].failed = "engine",
                                     ![i].done_at = Finished + 1]
            /\ UNCHANGED engines
    /\ UNCHANGED <<fpc, build_query_binding, fetch_args, frames, collected, fetch_ret,
                   parseVars, buildVars, combineVars, analyzeVars>>

\* _fetch_single_database lines 17-20
UnitBuildQuery(i) ==
    /\ fpc = "pool" /\ unit[i].pc = "have_engine"
    /\ \E q \in IF build_query_binding = "repository"
                THEN {CallRepositoryBuildQuery(cfg[Database(i)].table, fetch_args.filters,
                                               fetch_args.limit, fetch_args.date_column,
                                               BuildQueryCallArgs)}
                ELSE {StandInQuery(fetch_args.filters), BuildRaised("ValueError")} :
          IF q.status = "ok"
          THEN unit' = [unit EXCEPT ![i].pc = "have_query",
                                    ![i].query = [query |-> q.query, params |-> q.params],
                                    ![i].steps = Append(@, "build_query")]
          ELSE Fail(i, "build", "build_query")
    /\ UNCHANGED <<fpc, build_query_binding, fetch_args, engines, frames, collected, fetch_ret,
                   parseVars, buildVars, combineVars, analyzeVars>>

\* _fetch_single_database lines 23-30 with fetch_data: one read_sql on the unit's
\* engine, which raises or returns 0..MaxRows rows of that engine's database
UnitFetchData(i) ==
    /\ fpc = "pool" /\ unit[i].pc = "have_query"
    /\ \E outcome \in {[raised |-> TRUE, rows |-> <<>>]} \cup
                      {[raised |-> FALSE, rows |-> ReadRows(i, unit[i].engine.db, n)] :
                          n \in 0..MaxRows} :
          LET fetched == fetch_data(unit[i].query.query, unit[i].query.params, outcome) IN
          unit' = [unit EXCEPT ![i].pc = "done",
                               ![i].fetched = fetched,
                               ![i].result = UnitResult(fetched.df, Database(i)),
                               ![i].read = IF outcome.raised THEN -1 ELSE Len(outcome.rows),
                               ![i].failed = IF outcome.raised THEN "execute" ELSE "",
                               ![i].steps = Append(@, "read_sql"),
                               ![i].done_at = Finished + 1]
    /\ UNCHANGED <<fpc, build_query_binding, fetch_args, engines, frames, collected, fetch_ret,
                   parseVars, buildVars, combineVars, analyzeVars>>

\* line 45: leaving the with block waits until every unit has finished
JoinPool ==
    /\ fpc = "pool"
    /\ \A i \in Units : unit[i].pc = "done"
    /\ fpc' = "collecting"
    /\ UNCHANGED <<build_query_binding, fetch_args, engines, unit, frames, collected, fetch_ret,
                   parseVars, buildVars, combineVars, analyzeVars>>

\* lines 50-57: as_completed yields the finished futures in no fixed order
Collect(i) ==
    /\ fpc = "collecting" /\ i \notin collected
    /\ frames' = CollectFrame(frames, unit[i].result)
    /\ collected' = collected \cup {i}
    /\ UNCHANGED <<fpc, build_query_binding, fetch_args, engines, unit, fetch_ret,
                   parseVars, buildVars, combineVars, analyzeVars>>

\* lines 59-67
ReturnFetch ==
    /\ fpc = "collecting" /\ collected = Units
    /\ fetch_ret' = FetchResult(frames)
    /\ fpc' = "returned"
    /\ UNCHANGED <<build_query_binding, fetch_args, engines, unit, frames, collected,
                   parseVars, buildVars, combineVars, analyzeVars>>

FetchNext ==
    \/ CallFetch
    \/ \E i \in Units : UnitGetEngine(i)
    \/ \E i \in Units : UnitCreateEngine(i)
    \/ \E i \in Units : UnitBuildQuery(i)
    \/ \E i \in Units : UnitFetchData(i)
    \/ JoinPool
    \/ \E i \in Units : Collect(i)
    \/ ReturnFetch

SpecFetch == FetchInit /\ [][FetchNext]_vars

-----------------------------------------------------------------------------
(* Properties of the concurrent fetcher *)

UnitSteps == <<"get_engine", "build_query", "read_sql">>

\* the rows unit i read are all in the table t
RowsOfUnitIn(i, t) ==
    \A k \in 1..unit[i].read :
        \E j \in 1..Len(t) :
            t[j].unit = i /\ t[j].origin = Database(i) /\ t[j].n = k

\* C1: whatever happened to the other sources (engine resolution raised,
\* build_query raised, the query failed), the table fetch returns holds every
\* row of each source whose query succeeded with at least one row.
C1_FailureIsolation ==
    fpc = "returned" =>
        \A i \in Units : unit[i].read >= 1 => RowsOfUnitIn(i, fetch_ret)

C1_Witness ==
    /\ fpc = "returned"
    /\ \E i, j \in Units :
          /\ unit[i].failed # ""
          /\ unit[j].read >= 1
          /\ Len(fetch_ret) = unit[j].read
          /\ RowsOfUnitIn(j, fetch_ret)

\* C5 (as claimed): every unit performs get_engine, build_query, read_sql in
\* that order, each once and only after the previous step succeeded; and with
\* the repository's build_query, a fetch from a single source whose engine
\* resolves executes exactly one query on that engine.
C5_StepsOnceInOrder ==
    fpc = "returned" =>
      /\ \A i \in Units :
           /\ Len(unit[i].steps) \in 1..3
           /\ unit[i].steps = SubSeq(UnitSteps, 1, Len(unit[i].steps))
           /\ unit[i].failed = "engine" => unit[i].steps = SubSeq(UnitSteps, 1, 1)
           /\ unit[i].failed = "build" => unit[i].steps = SubSeq(UnitSteps, 1, 2)
      /\ (/\ build_query_binding = "repository"
          /\ Len(fetch_args.databases) = 1
          /\ unit[1].engine # NoEngine)
         => (/\ unit[1].steps = UnitSteps
             /\ unit[1].engine.db = Database(1)
             /\ fetch_args.filters # <<>> => unit[1].query.params # <<>>)

-----------------------------------------------------------------------------
(* Properties of the query builder.  The filter strings are read here by    *)
(* their whitespace-separated tokens, located by position in the string.    *)

TokenStarts(s) ==
    {i \in 1..Len(s) : s[i] \notin Whitespace /\ (i = 1 \/ s[i - 1] \in Whitespace)}

TokenCount(s) == Cardinality(TokenStarts(s))

TokenStart(s, n) ==
    CHOOSE i \in TokenStarts(s) : Cardinality({k \in TokenStarts(s) : k <= i}) = n

TokenEnd(s, i) ==
    CHOOSE j \in i..Len(s) :
        /\ \A k \in i..j : s[k] \notin Whitespace
        /\ j = Len(s) \/ s[j + 1] \in Whitespace

Token(s, n) == SubSeq(s, TokenStart(s, n), TokenEnd(s, TokenStart(s, n)))

\* ^[A-Za-z_][A-Za-z0-9_]*$ on a token
IsIdentifierText(t) ==
    /\ t # <<>>
    /\ \A i \in 1..Len(t) :
          \/ t[i] \in Letters \cup {"_"}
          \/ i > 1 /\ t[i] \in Digits

\* the operator allow-list of the specification
SpecOperators == {
    <<"=">>, <<"!", "=">>, <<"<", ">">>, <<"<">>, <<">">>, <<"<", "=">>, <<">", "=">>,
    <<"L", "I", "K", "E">>, <<"N", "O", "T", " ", "L", "I", "K", "E">>,
    <<"I", "N">>, <<"N", "O", "T", " ", "I", "N">>,
    <<"I", "S">>, <<"I", "S", " ", "N", "O", "T">> }

SpecIsOperators == {<<"I", "S">>, <<"I", "S", " ", "N", "O", "T">>}
SpecInOperators == {<<"I", "N">>, <<"N", "O", "T", " ", "I", "N">>}

FailsAllowList(s) ==
    \/ TokenCount(s) < 3
    \/ ~IsIdentifierText(Token(s, 1))
    \/ StrUpper(Token(s, 2)) \notin SpecOperators

OperatorText(s) == StrUpper(Token(s, 2))

ValueText(s) == StrJoin(<<" ">>, [n \in 1..(TokenCount(s) - 2) |-> Token(s, n + 2)])

Chars(t) == {t[i] : i \in 1..Len(t)}

\* characters that occur in the explored values and nowhere in the fixed text,
\* the identifiers or the operators
ValueMarks == {"X", "Z", "'"}

\* t is the placeholder of a bound parameter whose value is v
BindsTo(t, v, params) ==
    \E j \in 1..Len(params) : t = <<":">> \o params[j].name /\ params[j].value = v

\* C3: parse_filter_string raises ValueError for every string with fewer than 3
\* tokens, a first token that is no identifier or an upper-cased second token
\* outside the allow-list; build_query returns nothing when any filter of its
\* list is such a string, at whatever position.
C3_RejectedFilterRaises ==
    /\ (ppc = "done" /\ FailsAllowList(filter_str)) => parse_ret.status = "ValueError"
    /\ (bpc = "done" /\ \E i \in 1..Len(bq_args.filters) : FailsAllowList(bq_args.filters[i]))
          => (bq_ret.status = "ValueError" /\ bq_ret.query = <<>> /\ bq_ret.params = <<>>)

C3_Witness ==
    /\ bpc = "done"
    /\ IsIdentifierText(bq_args.table) /\ IsIdentifierText(bq_args.date_column)
    /\ Len(bq_args.filters) = 2
    /\ ~FailsAllowList(bq_args.filters[1])
    /\ FailsAllowList(bq_args.filters[2])
    /\ StrUpper(Token(bq_args.filters[2], 2)) \notin SpecOperators
    /\ bq_ret.status = "ValueError"

\* C4: in an accepted query, the condition of a filter whose operator is not
\* IS / IS NOT is the back-quoted column, the operator and placeholders only;
\* the value (each comma-separated literal of an IN list) is bound to the
\* placeholder in params and no character of it is in the condition.
C4_ValueOnlyInParams ==
    (bpc = "done" /\ bq_ret.status = "ok") =>
      /\ Len(bq_ret.where_conditions) = Len(bq_args.filters)
      /\ \A i \in 1..Len(bq_args.filters) :
           LET s == bq_args.filters[i]
               op == OperatorText(s)
               val == ValueText(s)
               cond == bq_ret.where_conditions[i]
               pre == BackQuoted(Token(s, 1)) \o <<" ">> \o op \o <<" ">>
               rest == SubSeq(cond, Len(pre) + 1, Len(cond))
           IN op \notin SpecIsOperators =>
                /\ Chars(cond) \cap ValueMarks = {}
                /\ Len(cond) > Len(pre) /\ SubSeq(cond, 1, Len(pre)) = pre
                /\ IF op \in SpecInOperators
                   THEN LET lits == StrSplitOn(val, ",")
                            phs == StrSplitOn(SubSeq(rest, 2, Len(rest) - 1), ",")
                        IN /\ rest[1] = "(" /\ rest[Len(rest)] = ")"
                           /\ Len(phs) = Len(lits)
                           /\ \A k \in 1..Len(lits) :
                                 BindsTo(phs[k], StrStrip(lits[k]), bq_ret.params)
                   ELSE BindsTo(rest, val, bq_ret.params)
      /\ (\A i \in 1..Len(bq_args.filters) :
             OperatorText(bq_args.filters[i]) \notin SpecIsOperators)
            => Chars(bq_ret.query) \cap ValueMarks = {}

C4_Witness ==
    /\ bpc = "done" /\ bq_ret.status = "ok"
    /\ Len(bq_args.filters) = 2
    /\ OperatorText(bq_args.filters[1]) \in SpecInOperators
    /\ OperatorText(bq_args.filters[2]) = <<"L", "I", "K", "E">>
    /\ "'" \in Chars(ValueText(bq_args.filters[2]))
    /\ Len(bq_ret.params) = 4
    /\ Chars(bq_ret.query) \cap ValueMarks = {}

\* C8 (as claimed): a positive integer limit appends the ORDER BY ... DESC LIMIT
\* clause and leaves params unchanged; a zero, negative or non-integer limit
\* makes build_query fail with ValueError.
C8_LimitPositiveOrError ==
    (/\ bpc = "done"
     /\ IsIdentifierText(bq_args.table) /\ IsIdentifierText(bq_args.date_column)
     /\ \A i \in 1..Len(bq_args.filters) : ~FailsAllowList(bq_args.filters[i]))
    =>
      LET lim == bq_args.limit
          unlimited == build_query(bq_args.table, bq_args.filters, PyNone, bq_args.date_column)
      IN /\ (lim.type = "int" /\ lim.v > 0) =>
               /\ bq_ret.status = "ok"
               /\ bq_ret.query = unlimited.query \o OrderByKw \o BackQuoted(bq_args.date_column)
                                    \o DescLimitKw \o IntText(lim.v)
               /\ bq_ret.params = unlimited.params
         /\ ((lim.type = "int" /\ lim.v <= 0) \/ lim.type \in {"str", "float"}) =>
               bq_ret.status = "ValueError"

\* C9 (as claimed): a string written as <column> <operator> <value>, with the
\* operator any of the allow-list and the column an identifier, is accepted and
\* the operator returned is the operator written, two-word operators included.
C9_EveryOperatorAccepted ==
    (/\ ppc = "done"
     /\ IsIdentifierText(intent.column)
     /\ intent.operator \in SpecOperators
     /\ intent.value # <<>>)
    => (parse_ret.status = "ok" /\ parse_ret.operator = intent.operator)

-----------------------------------------------------------------------------
(* The production-line combination: _combine_all_production_lines of         *)
(* src/modules/db_connector.py, run by the combine-lines command of          *)
(* src/core/cli.py through ModuleManager (src/core/module_manager.py), on    *)
(* the session of src/core/session.py.                                       *)
(* A table row is [line, k, id, ts]: the line it was loaded from, its        *)
(* position in that line's table, its unique identifier and its timestamp.   *)

\* a missing identifier (NULL / NaN)
NoId == "NaN"
\* a missing timestamp (NULL / NaT); the timestamps proper are 1, 2, ...
NaT == 0

IdValues == {"x1", "x2", NoId}
TsValues == {1, 2, NaT}
LineNames == <<"A", "B">>

CombinedDefaultName == "combined_production_data"

\* name in dict
HasKey(d, k) == k \in DOMAIN d

\* dict[k] = v
DictPut(d, k, v) == [n \in DOMAIN d \cup {k} |-> IF n = k THEN v ELSE d[n]]

\* lines 131, 95: the frame a successful load gives, tagged with its line
LoadedFrame(line) ==
    [has_id |-> source[line].has_id,
     has_ts |-> source[line].has_ts,
     rows |-> [k \in 1..Len(source[line].rows) |->
                 [line |-> line, k |-> k,
                  id |-> source[line].rows[k].id, ts |-> source[line].rows[k].ts]]]

\* the loop without the check of lines 133-135: a table that lacks the
\* identifier column is kept
RECURSIVE LoadLoop_no_column_check(_, _, _)
LoadLoop_no_column_check(lines, all_dataframes, successful_lines) ==
    IF Len(lines) = 0
    THEN [all_dataframes |-> all_dataframes, successful_lines |-> successful_lines]
    ELSE LET line_name == Head(lines) IN
         IF ~source[line_name].loads
         THEN LoadLoop_no_column_check(Tail(lines), all_dataframes, successful_lines)
         ELSE LoadLoop_no_column_check(Tail(lines),
                                       Append(all_dataframes, LoadedFrame(line_name)),
                                       Append(successful_lines, line_name))

\* lines 128-144: load every configured line; a load that raises and a table
\* without the unique-identifier column are skipped
RECURSIVE LoadLoop(_, _, _)
LoadLoop(lines, all_dataframes, successful_lines) ==
    IF Len(lines) = 0
    THEN [all_dataframes |-> all_dataframes, successful_lines |-> successful_lines]
    ELSE LET line_name == Head(lines) IN
         IF ~source[line_name].loads
         THEN LoadLoop(Tail(lines), all_dataframes, successful_lines)
         ELSE IF ~source[line_name].has_id
         THEN LoadLoop(Tail(lines), all_dataframes, successful_lines)
         ELSE LoadLoop(Tail(lines), Append(all_dataframes, LoadedFrame(line_name)),
                       Append(successful_lines, line_name))

\* line 151: pd.concat(all_dataframes, ignore_index=True): the union of the
\* columns, the rows in order; a row of a frame without a column has it missing
RECURSIVE ConcatRows(_)
ConcatRows(fs) == IF Len(fs) = 0 THEN <<>> ELSE Head(fs).rows \o ConcatRows(Tail(fs))

ConcatFrames(fs) ==
    [has_id |-> \E i \in 1..Len(fs) : fs[i].has_id,
     has_ts |-> \E i \in 1..Len(fs) : fs[i].has_ts,
     rows |-> ConcatRows(fs)]

\* the rows at the kept positions, in order
RECURSIVE Pick(_, _, _)
Pick(rows, keep, i) ==
    IF i > Len(rows) THEN <<>>
    ELSE (IF i \in keep THEN <<rows[i]>> ELSE <<>>) \o Pick(rows, keep, i + 1)

\* a deduplication that keeps the last row of each identifier instead
DropDuplicatesFirst_keep_last(rows) ==
    Pick(rows, {i \in 1..Len(rows) : \A j \in (i + 1)..Len(rows) : rows[j].id # rows[i].id}, 1)

\* drop_duplicates(subset=[unique_id_column], keep='first'); missing
\* identifiers count as equal to each other
DropDuplicatesFirst(rows) ==
    Pick(rows, {i \in 1..Len(rows) : \A j \in 1..(i - 1) : rows[j].id # rows[i].id}, 1)

\* drop_duplicates(subset=[unique_id_column], keep='last')
DropDuplicatesLast(rows) ==
    Pick(rows, {i \in 1..Len(rows) : \A j \in (i + 1)..Len(rows) : rows[j].id # rows[i].id}, 1)

\* sort_values(timestamp_column): ascending, missing timestamps last in their
\* original order; the default sort is not stable, so rows with equal
\* timestamps may come out in any order
SortOutcomes(rows) ==
    {[i \in 1..Len(rows) |-> rows[p[i]]] :
        p \in {q \in Permutations(1..Len(rows)) :
                 \A i, j \in 1..Len(rows) :
                    i < j =>
                      IF rows[q[i]].ts = NaT
                      THEN rows[q[j]].ts = NaT /\ q[i] < q[j]
                      ELSE rows[q[j]].ts = NaT \/ rows[q[i]].ts <= rows[q[j]].ts}}

\* the latest_wins branch without its drop_duplicates
Deduplicate_sort_only(combined_df, strategy, sorted) ==
    IF strategy = "latest_wins" /\ combined_df.has_ts
    THEN [rows |-> sorted, applied |-> "latest_wins"]
    ELSE [rows |-> DropDuplicatesFirst(combined_df.rows), applied |-> "first_occurrence"]

\* a deduplication whose first-occurrence branch works on the sorted rows
Deduplicate_sorted_first(combined_df, strategy, sorted) ==
    IF combined_df.has_id
    THEN IF strategy = "latest_wins" /\ combined_df.has_ts
         THEN [rows |-> DropDuplicatesLast(sorted), applied |-> "latest_wins"]
         ELSE [rows |-> DropDuplicatesFirst(sorted), applied |-> "first_occurrence"]
    ELSE [rows |-> combined_df.rows, applied |-> "none"]

\* lines 157-167; sorted is the outcome of sort_values, applied is the strategy
\* the branch taken prints
Deduplicate(combined_df, strategy, sorted) ==
    IF combined_df.has_id
    THEN IF strategy = "latest_wins" /\ combined_df.has_ts
         THEN [rows |-> DropDuplicatesLast(sorted), applied |-> "latest_wins"]
         ELSE [rows |-> DropDuplicatesFirst(combined_df.rows), applied |-> "first_occurrence"]
    ELSE [rows |-> combined_df.rows, applied |-> "none"]

\* lines 185-186: value_counts of the production-line column
LineDistribution(rows) ==
    [l \in {rows[i].line : i \in 1..Len(rows)} |->
        Cardinality({i \in 1..Len(rows) : rows[i].line = l})]

\* the dict a return statement of _combine_all_production_lines builds; keys
\* lists the keys it has
ErrorOnly(msg) ==
    [keys |-> {"error"}, success |-> "absent", error |-> msg,
     lines_combined |-> <<>>, total_records_initial |-> 0, total_records_final |-> 0,
     duplicates_removed |-> 0, unique_tracecodes |-> 0,
     deduplication_strategy |-> "", line_distribution |-> <<>>]

Caught(msg) == [ErrorOnly(msg) EXCEPT !.keys = {"success", "error"}, !.success = "false"]

\* session.py lines 364-381, 280-290, 311-325 as called by lines 193-225
SaveCombined(sess, name, strategy, lines, initial_count, final_count, dist, created_at) ==
    LET s1 == [sess EXCEPT !.data_files = DictPut(@, name, name)]
        s2 == [s1 EXCEPT !.combined_datasets =
                   DictPut(@, name,
                           [lines |-> lines,
                            total_records_initial |-> initial_count,
                            total_records_final |-> final_count,
                            duplicates_removed |-> initial_count - final_count,
                            strategy |-> strategy,
                            line_distribution |-> dist,
                            created_at |-> created_at])]
        s3 == [s2 EXCEPT !.data_sources =
                   DictPut(@, name,
                           [type |-> "combined_dataset", lines |-> lines,
                            rows |-> final_count,
                            duplicates_removed |-> initial_count - final_count,
                            line_distribution |-> dist,
                            created_at |-> created_at])]
    IN IF s3.current_source = "" THEN [s3 EXCEPT !.current_source = name] ELSE s3

\* _combine_all_production_lines, lines 109-240.  sorted is what sort_values
\* gives for the concatenated rows, save_ok whether to_parquet succeeds and
\* at the time of the call.
combine_all_production_lines(name, sess, store, sorted, save_ok, at) ==
    IF Len(db_configs) = 0
    THEN [data |-> ErrorOnly("No database configurations found"),
          session |-> sess, data_store |-> store, applied |-> "none"]
    ELSE
      LET loaded == LoadLoop(db_configs, <<>>, <<>>) IN
      IF Len(loaded.all_dataframes) = 0
      THEN [data |-> ErrorOnly("Failed to load data from any production line"),
            session |-> sess, data_store |-> store, applied |-> "none"]
      ELSE
        LET combined_df == ConcatFrames(loaded.all_dataframes)
            initial_count == Len(combined_df.rows)
            dedup == Deduplicate(combined_df, merge_strategy, sorted)
            final_count == Len(dedup.rows)
            dist == LineDistribution(dedup.rows)
        IN
        IF ~save_ok
        THEN [data |-> Caught("to_parquet failed"),
              session |-> sess, data_store |-> store, applied |-> dedup.applied]
        ELSE [data |-> [keys |-> {"success", "message", "lines_combined",
                                  "total_records_initial", "total_records_final",
                                  "duplicates_removed", "unique_tracecodes",
                                  "deduplication_strategy", "line_distribution"},
                        success |-> "true", error |-> "",
                        lines_combined |-> loaded.successful_lines,
                        total_records_initial |-> initial_count,
                        total_records_final |-> final_count,
                        duplicates_removed |-> initial_count - final_count,
                        unique_tracecodes |-> final_count,
                        deduplication_strategy |-> merge_strategy,
                        line_distribution |-> dist],
              session |-> SaveCombined(sess, name, merge_strategy, loaded.successful_lines,
                                       initial_count, final_count, dist, at),
              data_store |-> DictPut(store, name, dedup.rows),
              applied |-> dedup.applied]

\* module_manager.py lines 90-106: the ModuleResult for what execute returned,
\* or for the exception importing the module raised
ExecutePythonModule(import_ok, result_data) ==
    IF import_ok
    THEN [success |-> TRUE, data |-> result_data, error |-> ""]
    ELSE [success |-> FALSE, data |-> ErrorOnly(""), error |-> "import failed"]

\* the rows sort_values is given by line 160, or none when the call ends earlier
RowsToSort ==
    IF Len(db_configs) = 0 THEN <<>>
    ELSE ConcatRows(LoadLoop(db_configs, <<>>, <<>>).all_dataframes)

NoReport ==
    [lines |-> <<>>, initial |-> 0, final |-> 0, removed |-> 0, strategy |-> ""]

\* cli.py lines 279-314: the combine-lines command
CombineLines ==
    /\ cpc = "prompt"
    /\ now <= MaxCombines
    /\ now' = now + 1
    /\ \E import_ok \in BOOLEAN : \E save_ok \in BOOLEAN : \E sorted \in SortOutcomes(RowsToSort) :
         LET r == IF import_ok
                  THEN combine_all_production_lines(CombinedDefaultName, session, data_store,
                                                    sorted, save_ok, now)
                  ELSE [data |-> ErrorOnly(""), session |-> session,
                        data_store |-> data_store, applied |-> "none"]
             result == ExecutePythonModule(import_ok, r.data)
         IN /\ module_result' = result
            /\ data_store' = r.data_store
            /\ IF result.success
               THEN /\ stdout' = [command |-> "combine-lines", kind |-> "report",
                                  error |-> "",
                                  report |-> [lines |-> result.data.lines_combined,
                                              initial |-> result.data.total_records_initial,
                                              final |-> result.data.total_records_final,
                                              removed |-> result.data.duplicates_removed,
                                              strategy |->
                                                 IF "deduplication_strategy" \in result.data.keys
                                                 THEN result.data.deduplication_strategy
                                                 ELSE "N/A"],
                                  applied |-> r.applied,
                                  active |-> CombinedDefaultName]
                    /\ session' = [r.session EXCEPT !.current_source = CombinedDefaultName]
               ELSE /\ stdout' = [command |-> "combine-lines", kind |-> "error",
                                  error |-> result.error, report |-> NoReport,
                                  applied |-> r.applied, active |-> ""]
                    /\ session' = r.session
    /\ UNCHANGED <<cpc, db_configs, merge_strategy, source, parseVars, buildVars, fetchVars, analyzeVars>>

\* cli.py lines 369-382 with SessionManager.set_current_source (lines 339-352)
Use(source_name) ==
    /\ cpc = "prompt"
    /\ IF HasKey(session.data_sources, source_name)
       THEN /\ session' = [session EXCEPT !.current_source = source_name]
            /\ stdout' = [command |-> "use", kind |-> "using", error |-> "",
                          report |-> NoReport, applied |-> "none", active |-> source_name]
       ELSE /\ session' = session
            /\ stdout' = [command |-> "use", kind |-> "not found", error |-> "",
                          report |-> NoReport, applied |-> "none", active |-> ""]
    /\ module_result' = <<>>
    /\ UNCHANGED <<cpc, db_configs, merge_strategy, source, data_store, now,
                   parseVars, buildVars, fetchVars, analyzeVars>>

\* the rows a table can hold: with the timestamp column, identifier x1 at
\* every timestamp and the other identifiers at timestamp 1; without it, every
\* identifier with the timestamp missing
RowValues(has_ts) ==
    IF has_ts
    THEN {r \in [id : IdValues, ts : TsValues] : r.id = "x1" \/ r.ts = 1}
    ELSE [id : IdValues, ts : {NaT}]

\* the table of a line that is not configured
NoTable == [loads |-> FALSE, has_id |-> TRUE, has_ts |-> TRUE, rows |-> <<>>]

\* the rows of a table that combine skips: dated rows of x1 in a table whose
\* load raises, dated rows without identifier in a table that lacks the column
SkippedRows(has_id, m) ==
    [k \in 1..m |-> [id |-> IF has_id THEN "x1" ELSE NoId, ts |-> 1]]

\* the tables a line can hold, of at most n rows: those with the identifier
\* column, those without it, and those whose load raises
TableStates(n) ==
    UNION {{[loads |-> TRUE, has_id |-> TRUE, has_ts |-> hts, rows |-> r] :
               r \in [1..m -> RowValues(hts)]} : hts \in BOOLEAN, m \in 0..n}
    \cup {[loads |-> TRUE, has_id |-> FALSE, has_ts |-> TRUE,
           rows |-> SkippedRows(FALSE, m)] : m \in 0..n}
    \cup {[loads |-> FALSE, has_id |-> TRUE, has_ts |-> TRUE,
           rows |-> SkippedRows(TRUE, m)] : m \in 0..n}

\* session.py lines 105-111
DefaultSession ==
    [data_sources |-> <<>>, combined_datasets |-> <<>>, current_source |-> "",
     data_files |-> <<>>]

\* a session in which load-file has loaded and selected a dataset
FileSession ==
    [data_sources |-> DictPut(<<>>, "file1", [type |-> "file"]),
     combined_datasets |-> <<>>, current_source |-> "file1",
     data_files |-> <<>>]

DatasetNames == {"file1", CombinedDefaultName}

CombineInit ==
    /\ cpc = "prompt"
    /\ \E n \in 0..Len(LineNames) : db_configs = SubSeq(LineNames, 1, n)
    /\ merge_strategy \in {"latest_wins", "first_occurrence"}
    /\ \E a \in 0..MaxTableRows : \E ta \in TableStates(a) :
       \E tb \in TableStates(MaxTableRows - Len(ta.rows)) :
          /\ source = [l \in {"A", "B"} |-> IF l = "A" THEN ta ELSE tb]
          /\ Len(db_configs) < 2 => tb = NoTable
          /\ Len(db_configs) < 1 => ta = NoTable
    /\ session \in {DefaultSession, FileSession}
    /\ data_store = [n \in DOMAIN session.data_files |-> <<>>]
    /\ module_result = <<>>
    /\ stdout = <<>>
    /\ now = 1
    /\ ParseIdle /\ BuildIdle /\ FetchIdle /\ AnalyzeIdle

CombineNext ==
    \/ CombineLines
    \/ \E n \in DatasetNames : Use(n)

SpecCombine == CombineInit /\ [][CombineNext]_vars

-----------------------------------------------------------------------------
(* The session under the commands that select a dataset: load-file,          *)
(* combine-files, combine-lines and use (src/core/cli.py,                    *)
(* src/modules/file_loader.py, src/core/session.py).                         *)

\* cli.py lines 155-176 with _load_file (file_loader.py lines 185-296): a
\* loaded file is added with add_data_source (session.py lines 311-325); the
\* dict of a failed load is printed like a success
LoadFile(name) ==
    /\ cpc = "prompt"
    /\ \E import_ok \in BOOLEAN : \E loaded \in BOOLEAN :
         LET added == [session EXCEPT !.data_sources = DictPut(@, name, [type |-> "file"])]
             result == ExecutePythonModule(import_ok,
                          IF loaded THEN [keys |-> {"message"}] ELSE [keys |-> {"error"}])
         IN /\ module_result' = result
            /\ session' = IF import_ok /\ loaded
                           THEN IF added.current_source = ""
                                THEN [added EXCEPT !.current_source = name] ELSE added
                           ELSE session
            /\ stdout' = [command |-> "load-file",
                          kind |-> IF result.success THEN "message" ELSE "error",
                          error |-> result.error, report |-> NoReport,
                          applied |-> "none", active |-> ""]
    /\ UNCHANGED <<cpc, db_configs, merge_strategy, source, data_store, now,
                   parseVars, buildVars, fetchVars, analyzeVars>>

\* cli.py lines 217-250 with _combine_multiple_files (file_loader.py lines
\* 341-410): the combined frame is saved with save_combined_dataframe
\* (session.py lines 364-381) and the command sets current_source to
\* data.get('combined_name'), which is None for the dict of a failed run
CombineFiles(name) ==
    /\ cpc = "prompt"
    /\ \E import_ok \in BOOLEAN : \E combined \in BOOLEAN :
         LET data == IF combined
                     THEN [keys |-> {"message", "combined_name", "file_details", "total_rows"},
                           combined_name |-> name]
                     ELSE [keys |-> {"error"}, combined_name |-> ""]
             result == ExecutePythonModule(import_ok, data)
             saved == IF import_ok /\ combined
                      THEN [session EXCEPT !.data_files = DictPut(@, name, name)]
                      ELSE session
         IN /\ module_result' = result
            /\ data_store' = IF import_ok /\ combined
                              THEN DictPut(data_store, name,
                                           <<[line |-> "source_0", k |-> 1, id |-> NoId, ts |-> NaT]>>)
                              ELSE data_store
            /\ IF result.success
               THEN /\ session' = [saved EXCEPT !.current_source = data.combined_name]
                    /\ stdout' = [command |-> "combine-files", kind |-> "report", error |-> "",
                                  report |-> NoReport, applied |-> "none",
                                  active |-> data.combined_name]
               ELSE /\ session' = saved
                    /\ stdout' = [command |-> "combine-files", kind |-> "error",
                                  error |-> result.error, report |-> NoReport,
                                  applied |-> "none", active |-> ""]
    /\ UNCHANGED <<cpc, db_configs, merge_strategy, source, now,
                   parseVars, buildVars, fetchVars, analyzeVars>>

\* a new session and at most one configured line, whose table holds at most
\* one row
SessionInit ==
    /\ cpc = "prompt"
    /\ \E n \in 0..1 : db_configs = SubSeq(LineNames, 1, n)
    /\ merge_strategy \in {"latest_wins", "first_occurrence"}
    /\ \E ta \in TableStates(1) :
          /\ source = [l \in {"A", "B"} |-> IF l = "A" THEN ta ELSE NoTable]
          /\ Len(db_configs) < 1 => ta = NoTable
    /\ session = DefaultSession
    /\ data_store = <<>>
    /\ module_result = <<>>
    /\ stdout = <<>>
    /\ now = 1
    /\ ParseIdle /\ BuildIdle /\ FetchIdle /\ AnalyzeIdle

SessionNext ==
    \/ LoadFile("file1")
    \/ CombineFiles("files1")
    \/ CombineLines
    \/ \E n \in DatasetNames \cup {"files1"} : Use(n)

SpecSession == SessionInit /\ [][SessionNext]_vars

-----------------------------------------------------------------------------
(* Properties of the production-line combination.                            *)

\* the last command was combine-lines
CombineRan == stdout # <<>> /\ stdout.command = "combine-lines"

\* ... and _combine_all_production_lines returned its success dict
CombineSucceeded ==
    CombineRan /\ module_result.success /\ module_result.data.success = "true"

\* the combined table as stored by the last successful combine
CombinedTable == data_store[CombinedDefaultName]

\* the rows of the loaded tables, as concatenated
InputRows == RowsToSort

\* the timestamp column is present in the concatenated data
TimestampPresent ==
    \E i \in 1..Len(db_configs) :
        LET s == source[db_configs[i]] IN s.loads /\ s.has_id /\ s.has_ts

\* no line is configured, or no configured line gives a usable table
NothingToCombine ==
    \A i \in 1..Len(db_configs) :
        LET s == source[db_configs[i]] IN ~s.loads \/ ~s.has_id

\* C2: after a successful combine the combined table holds one row per
\* distinct value of the unique-identifier column (a missing identifier
\* counting as one value): the number of rows equals the number of distinct
\* identifiers, under either strategy and for every combination of tables.
C2_OneRowPerIdentifier ==
    CombineSucceeded =>
        /\ Cardinality({CombinedTable[i].id : i \in 1..Len(CombinedTable)})
              = Len(CombinedTable)
        /\ {CombinedTable[i].id : i \in 1..Len(CombinedTable)}
              = {InputRows[i].id : i \in 1..Len(InputRows)}
        /\ module_result.data.total_records_final = Len(CombinedTable)

\* a successful latest_wins combine of two lines that removed a duplicate
C2_Witness ==
    /\ CombineSucceeded
    /\ stdout.applied = "latest_wins"
    /\ Len(module_result.data.lines_combined) = 2
    /\ module_result.data.duplicates_removed > 0

\* C6: with latest_wins and the timestamp column present, no row with an
\* earlier or missing timestamp is kept in place of a row of the same
\* identifier that has a later timestamp.
C6_LatestTimestampKept ==
    (CombineSucceeded /\ merge_strategy = "latest_wins" /\ TimestampPresent) =>
        \A i \in 1..Len(CombinedTable) : \A j \in 1..Len(InputRows) :
            (InputRows[j].id = CombinedTable[i].id /\ InputRows[j].ts # NaT) =>
                /\ CombinedTable[i].ts # NaT
                /\ InputRows[j].ts <= CombinedTable[i].ts

\* C7: when latest_wins is requested and the timestamp column is absent from
\* the combined data, combine deduplicates by first occurrence and the
\* strategy in the returned result and in the stored dataset metadata is
\* first_occurrence, the one that ran.
C7_RecordedStrategyIsApplied ==
    (CombineSucceeded /\ merge_strategy = "latest_wins" /\ ~TimestampPresent) =>
        /\ stdout.applied = "first_occurrence"
        /\ CombinedTable = DropDuplicatesFirst(InputRows)
        /\ module_result.data.deduplication_strategy = "first_occurrence"
        /\ session.combined_datasets[CombinedDefaultName].strategy = "first_occurrence"

\* C10: when no line is configured or no line yields usable data, the result
\* handed to the CLI is unsuccessful and carries the error message, and
\* combine-lines prints the error instead of a report.
C10_NothingToCombineIsAnError ==
    (CombineRan /\ NothingToCombine) =>
        /\ ~module_result.success
        /\ module_result.error # ""
        /\ stdout.kind = "error"

\* C11: a combine-lines run that fails (no configuration, no usable data, an
\* exception inside the combination, or the module not importable) leaves
\* current_source, data_sources, combined_datasets and data_files as they
\* were before the run.
C11_FailedCombineKeepsSession ==
    [][(/\ stdout'.command = "combine-lines"
        /\ ~(module_result'.success /\ module_result'.data.success = "true"))
       => session' = session]_vars

-----------------------------------------------------------------------------
(* Further properties of the concurrent fetcher *)

\* the frame unit i contributes to the concatenation
Contribution(i) == IF unit[i].result.isNone THEN <<>> ELSE unit[i].result.rows

\* the units in the order in which they finished
CompletionOrder == [k \in 1..Len(unit) |-> CHOOSE i \in DOMAIN unit : unit[i].done_at = k]

\* the contributions of the units listed in order, concatenated
RECURSIVE ConcatInOrder(_)
ConcatInOrder(order) ==
    IF Len(order) = 0 THEN <<>>
    ELSE Contribution(Head(order)) \o ConcatInOrder(Tail(order))

\* C12: the rows of the table fetch returns are the per-source results
\* concatenated in the order in which the fetch units completed, each
\* source's rows contiguous and in their fetched order.
C12_RowsInCompletionOrder ==
    fpc = "returned" => fetch_ret = ConcatInOrder(CompletionOrder)

\* C13: every row of a non-empty table returned by fetch carries a
\* source_database tag that is the name of the source whose query produced
\* the row, and that name is an element of the input source list.
C13_RowsTaggedWithTheirSource ==
    fpc = "returned" =>
        \A j \in 1..Len(fetch_ret) :
            /\ fetch_ret[j].source_database = fetch_ret[j].origin
            /\ fetch_ret[j].source_database = Database(fetch_ret[j].unit)
            /\ \E i \in 1..Len(fetch_args.databases) :
                  fetch_args.databases[i] = fetch_ret[j].source_database

\* a returned table with rows of two different sources
C13_Witness ==
    /\ fpc = "returned"
    /\ \E j, k \in 1..Len(fetch_ret) :
          /\ fetch_ret[j].source_database = "db1"
          /\ fetch_ret[k].source_database = "db2"

\* C14: fetch never raises: while it runs some step can always be taken, a
\* source that returned zero rows (or failed) is left out of the
\* concatenation, and when every source failed or returned zero rows, or the
\* source list is empty, fetch returns an empty table.
C14_FetchReturnsEmptyNotError ==
    /\ fpc \in {"pool", "collecting"} => ENABLED FetchNext
    /\ fpc = "returned" =>
          /\ Len(frames) = Cardinality({i \in Units : unit[i].read >= 1})
          /\ \A i \in Units :
                unit[i].read < 1 => \A j \in 1..Len(fetch_ret) : fetch_ret[j].unit # i
          /\ (\A i \in Units : unit[i].read < 1) => fetch_ret = <<>>

\* one source returned zero rows, another returned rows, and the table
\* returned holds the rows of the second only
C14_Witness ==
    /\ fpc = "returned"
    /\ \E i, j \in Units :
          /\ unit[i].read = 0
          /\ unit[j].read >= 1
          /\ Len(fetch_ret) = unit[j].read

-----------------------------------------------------------------------------
(* Further properties of the production-line combination *)

\* row j of the concatenated table is the first of its identifier
FirstOfItsId(j) == \A i \in 1..(j - 1) : InputRows[i].id # InputRows[j].id

\* C15: with strategy first_occurrence the combined table holds, for every
\* identifier, exactly the row of that identifier that comes first in the
\* concatenated table (lines in configuration order, rows in table order),
\* whatever the timestamps are.
C15_FirstOccurrenceKept ==
    (CombineSucceeded /\ merge_strategy = "first_occurrence") =>
        /\ \A j \in 1..Len(InputRows) :
              FirstOfItsId(j) <=>
                 \E i \in 1..Len(CombinedTable) : CombinedTable[i] = InputRows[j]
        /\ Len(CombinedTable) = Cardinality({j \in 1..Len(InputRows) : FirstOfItsId(j)})

\* a first_occurrence combine that kept a row although a later row of the
\* same identifier has a later timestamp
C15_Witness ==
    /\ CombineSucceeded /\ merge_strategy = "first_occurrence" /\ TimestampPresent
    /\ \E i \in 1..Len(CombinedTable) : \E j \in 1..Len(InputRows) :
          /\ InputRows[j].id = CombinedTable[i].id
          /\ CombinedTable[i].ts # NaT
          /\ InputRows[j].ts > CombinedTable[i].ts

\* combine skips line l: its load raises or its table lacks the identifier column
Skipped(l) == ~source[l].loads \/ ~source[l].has_id

\* C16: a line whose table lacks the unique-identifier column, or whose load
\* raises, is skipped: none of its rows is in the combined table and its name
\* is not in the recorded lists of combined lines, while every other
\* configured line is listed and every identifier of its table is in the
\* combined table.
C16_SkippedLinesLeftOut ==
    CombineSucceeded =>
        \A n \in 1..Len(db_configs) :
            LET l == db_configs[n]
                listed == \E i \in 1..Len(module_result.data.lines_combined) :
                              module_result.data.lines_combined[i] = l
                stored == \E i \in 1..Len(session.combined_datasets[CombinedDefaultName].lines) :
                              session.combined_datasets[CombinedDefaultName].lines[i] = l
            IN IF Skipped(l)
               THEN /\ ~listed /\ ~stored
                    /\ \A i \in 1..Len(CombinedTable) : CombinedTable[i].line # l
               ELSE /\ listed /\ stored
                    /\ \A k \in 1..Len(source[l].rows) :
                          \E i \in 1..Len(CombinedTable) :
                              CombinedTable[i].id = source[l].rows[k].id

\* a successful combine of two configured lines, one skipped although its
\* table has rows, the other contributing rows
C16_Witness ==
    /\ CombineSucceeded
    /\ Len(db_configs) = 2
    /\ \E l, o \in {"A", "B"} :
          /\ Skipped(l) /\ Len(source[l].rows) > 0
          /\ ~Skipped(o) /\ \E i \in 1..Len(CombinedTable) : CombinedTable[i].line = o

-----------------------------------------------------------------------------
(* Further properties of the query builder *)

OpNOT == <<"N", "O", "T">>
OpIN == <<"I", "N">>

\* the operator of a filter written  column IN value  or  column NOT IN value,
\* and <<>> for any other string
InFilterOperator(s) ==
    IF TokenCount(s) >= 4 /\ StrUpper(Token(s, 2)) = OpNOT /\ StrUpper(Token(s, 3)) = OpIN
    THEN OpNOT \o <<" ">> \o OpIN
    ELSE IF TokenCount(s) >= 3 /\ StrUpper(Token(s, 2)) = OpIN
    THEN OpIN
    ELSE <<>>

\* the tokens of s from the n-th on, joined by single spaces
TokensFrom(s, n) == StrJoin(<<" ">>, [k \in 1..(TokenCount(s) - n + 1) |-> Token(s, k + n - 1)])

\* the comma-separated literals of such a filter
InFilterLiterals(s) ==
    LET raw == StrSplitOn(TokensFrom(s, IF InFilterOperator(s) = OpIN THEN 3 ELSE 4), ",")
    IN [k \in 1..Len(raw) |-> StrStrip(raw[k])]

\* the number of placeholders in a query text
PlaceholderCount(text) == Cardinality({i \in 1..Len(text) : text[i] = ":"})

\* :param_b, :param_b+1, ... for n parameters
Placeholders(b, n) == [k \in 1..n |-> <<":">> \o ParamName(b + k - 1)]

\* the explored filter lists in which every filter is an IN / NOT IN filter on
\* an identifier column or a filter the allow-list accepts
InFilterCall ==
    /\ bpc = "done"
    /\ IsIdentifierText(bq_args.table) /\ IsIdentifierText(bq_args.date_column)
    /\ bq_args.limit \in {PyNone, PyInt(1), PyInt(10)}
    /\ \A i \in 1..Len(bq_args.filters) :
          \/ ~FailsAllowList(bq_args.filters[i])
          \/ InFilterOperator(bq_args.filters[i]) # <<>>
                /\ IsIdentifierText(Token(bq_args.filters[i], 1))
    /\ \E i \in 1..Len(bq_args.filters) : InFilterOperator(bq_args.filters[i]) # <<>>

\* C17: for a filter with operator IN or NOT IN whose value splits on commas
\* into N literals, build_query emits one condition  col OP (:p_1,...,:p_N)
\* and binds each literal, in order, to its own parameter; the parameters of
\* a query are numbered consecutively from one counter, so no two share a
\* name and params has as many entries as the text has placeholders.
C17_InListBoundOneByOne ==
    InFilterCall =>
      /\ bq_ret.status = "ok"
      /\ Len(bq_ret.where_conditions) = Len(bq_args.filters)
      /\ \A j \in 1..Len(bq_ret.params) : bq_ret.params[j].name = ParamName(j - 1)
      /\ Len(bq_ret.params) = PlaceholderCount(bq_ret.query)
      /\ \A i \in 1..Len(bq_args.filters) :
            LET s == bq_args.filters[i]
                lits == InFilterLiterals(s)
            IN InFilterOperator(s) # <<>> =>
                 \E b \in 0..Len(bq_ret.params) :
                    /\ bq_ret.where_conditions[i] =
                          BackQuoted(Token(s, 1)) \o <<" ">> \o InFilterOperator(s) \o <<" ", "(">>
                             \o StrJoin(<<",">>, Placeholders(b, Len(lits))) \o <<")">>
                    /\ b + Len(lits) <= Len(bq_ret.params)
                    /\ \A k \in 1..Len(lits) : bq_ret.params[b + k].value = lits[k]

\* the fixed text of a query, as the specification writes it
TextSelect == <<"S", "E", "L", "E", "C", "T", " ", "*", " ", "F", "R", "O", "M", " ">>
TextWhere == <<" ", "W", "H", "E", "R", "E", " ">>
TextAnd == <<" ", "A", "N", "D", " ">>

\* t begins with pre
StartsWith(t, pre) == Len(t) >= Len(pre) /\ SubSeq(t, 1, Len(pre)) = pre

\* C18: build_query emits the conditions of the filters, in the order of the
\* input list, joined by ' AND ' after 'SELECT * FROM <back-quoted table>
\* WHERE '; with an empty filter list and no limit it returns exactly
\* 'SELECT * FROM <back-quoted table>' and an empty params map.
C18_ConditionsJoinedInOrder ==
    (bpc = "done" /\ bq_ret.status = "ok") =>
      LET select == TextSelect \o <<BackQuote>> \o bq_args.table \o <<BackQuote>> IN
      /\ Len(bq_ret.where_conditions) = Len(bq_args.filters)
      /\ \A i \in 1..Len(bq_args.filters) :
            StartsWith(bq_ret.where_conditions[i],
                       <<BackQuote>> \o Token(bq_args.filters[i], 1) \o <<BackQuote, " ">>
                          \o StrUpper(Token(bq_args.filters[i], 2)) \o <<" ">>)
      /\ Len(bq_args.filters) > 0 =>
            StartsWith(bq_ret.query,
                       select \o TextWhere \o StrJoin(TextAnd, bq_ret.where_conditions))
      /\ (Len(bq_args.filters) > 0 /\ bq_args.limit = PyNone) =>
            bq_ret.query = select \o TextWhere \o StrJoin(TextAnd, bq_ret.where_conditions)
      /\ (Len(bq_args.filters) = 0 /\ bq_args.limit = PyNone) =>
            (bq_ret.query = select /\ bq_ret.params = <<>>)

\* an accepted query of two filters on different columns
C18_Witness ==
    /\ bpc = "done" /\ bq_ret.status = "ok"
    /\ Len(bq_args.filters) = 2
    /\ Token(bq_args.filters[1], 1) # Token(bq_args.filters[2], 1)
    /\ bq_args.limit = PyNone

-----------------------------------------------------------------------------
(* The quality statistics of the analyzer, src/modules/analyzer.py:          *)
(* _perform_quality_analysis with _calculate_cpk and _calculate_cp, and the  *)
(* process-stability part of _generate_insights, applied to the non-missing  *)
(* values of the analysed column.                                            *)
(* Numbers are held in tenths: 25 stands for 2.5.  Means and standard        *)
(* deviations are not computed as numbers; for data of n values with sum S   *)
(* and sum of squares Q, mean = S / n and std = sqrt(n*Q - S*S) / n, and     *)
(* every comparison of the code is decided on these integers.                *)

\* the largest number of analysed values
MaxData == 3

RECURSIVE SumOf(_)
SumOf(a) == IF Len(a) = 0 THEN 0 ELSE Head(a) + SumOf(Tail(a))

RECURSIVE SumSq(_)
SumSq(a) == IF Len(a) = 0 THEN 0 ELSE Head(a) * Head(a) + SumSq(Tail(a))

\* (n * std)^2
ScaledVariance(data) == Len(data) * SumSq(data) - SumOf(data) * SumOf(data)

\* np.max(a) - np.min(a)
DataRange(a) ==
    LET values == {a[i] : i \in 1..Len(a)}
    IN (CHOOSE x \in values : \A y \in values : y <= x)
         - (CHOOSE x \in values : \A y \in values : x <= y)

\* the analysed values that are explored, in tenths
DataValues == {-10, 1, 10, 20, 40, 50, 90, 100}

\* np.mean of n copies of a float64 value divides the rounded sum by n.  Of
\* the explored values only 0.1 taken 3 times gives a mean that is not the
\* value: 0.1 + 0.1 + 0.1 is 0.30000000000000004 and a third of it is
\* 0.10000000000000002.  np.std of that array is 1.3877787807814457e-17.
InexactMeans == {<<1, 3>>}

\* std_val == 0 for std_val = np.std(data)
StdIsZero(data) ==
    ScaledVariance(data) = 0 /\ <<data[1], Len(data)>> \notin InexactMeans

\* the value float('inf')
Inf == [kind |-> "inf", num |-> 0, k |-> 0, root |-> 0]

\* the value num / (k * sqrt(root)); root 0 stands for the rounding residue
\* of a constant array, a positive number below 1e-16
Ratio(num, k, root) == [kind |-> "finite", num |-> num, k |-> k, root |-> root]

\* the value 0.0
Zero == Ratio(0, 1, 1)

IntMin(a, b) == IF a <= b THEN a ELSE b

\* a Cpk taken from the upper limit alone
calculate_cpk_upper_only(data, usl, lsl) ==
    IF Len(data) = 0 THEN Zero
    ELSE IF StdIsZero(data)
         THEN IF Len(data) * lsl <= SumOf(data) /\ SumOf(data) <= Len(data) * usl
              THEN Inf ELSE Zero
         ELSE Ratio(Len(data) * usl - SumOf(data), 3, ScaledVariance(data))

\* _calculate_cpk, lines 306-330
calculate_cpk(data, usl, lsl) ==
    IF Len(data) = 0 THEN Zero
    ELSE IF StdIsZero(data)
         THEN IF Len(data) * lsl <= SumOf(data) /\ SumOf(data) <= Len(data) * usl
              THEN Inf ELSE Zero
         ELSE Ratio(IntMin(Len(data) * usl - SumOf(data), SumOf(data) - Len(data) * lsl),
                    3, ScaledVariance(data))

\* _calculate_cp, lines 333-353
calculate_cp(data, usl, lsl) ==
    IF Len(data) = 0 THEN Zero
    ELSE IF StdIsZero(data) THEN Inf
    ELSE Ratio(Len(data) * (usl - lsl), 6, ScaledVariance(data))

\* a count of the values at or above the limit
CountAbove_inclusive(data, limit) == Cardinality({i \in 1..Len(data) : data[i] >= limit})

\* np.sum(data > limit) and np.sum(data < limit)
CountAbove(data, limit) == Cardinality({i \in 1..Len(data) : data[i] > limit})
CountBelow(data, limit) == Cardinality({i \in 1..Len(data) : data[i] < limit})

\* the keys written by the blocks of lines 275-280, 285-290 and 298-301
HighKeys == {"usl", "out_of_spec_high", "nok_percentage_high", "within_spec_high"}
LowKeys == {"lsl", "out_of_spec_low", "nok_percentage_low", "within_spec_low"}
BothKeys == {"total_nok_percentage", "total_ok_percentage", "cpk", "cp"}

\* _perform_quality_analysis, lines 258-303; keys are the keys of the dict
perform_quality_analysis(data, usl, lsl) ==
    LET has_usl == usl # PyNone
        has_lsl == lsl # PyNone
    IN [keys |-> (IF has_usl THEN HighKeys ELSE {})
                 \cup (IF has_lsl THEN LowKeys ELSE {})
                 \cup (IF has_usl /\ has_lsl THEN BothKeys ELSE {}),
        out_of_spec_high |-> IF has_usl THEN CountAbove(data, usl.v) ELSE 0,
        within_spec_high |-> IF has_usl THEN Len(data) - CountAbove(data, usl.v) ELSE 0,
        out_of_spec_low |-> IF has_lsl THEN CountBelow(data, lsl.v) ELSE 0,
        within_spec_low |-> IF has_lsl THEN Len(data) - CountBelow(data, lsl.v) ELSE 0,
        cpk |-> IF has_usl /\ has_lsl THEN calculate_cpk(data, usl.v, lsl.v) ELSE Zero,
        cp |-> IF has_usl /\ has_lsl THEN calculate_cp(data, usl.v, lsl.v) ELSE Zero]

\* relative_std < threshold for relative_std of line 430: (std / mean) * 100
\* when the mean is not 0, else 0
RelativeStdBelow(data, threshold) ==
    LET S == SumOf(data)
        V == ScaledVariance(data)
    IN IF S = 0 THEN 0 < threshold
       ELSE IF S > 0
       THEN threshold > 0 /\ 10000 * V < threshold * threshold * S * S
       ELSE threshold > 0 \/ 10000 * V > threshold * threshold * S * S

\* _generate_insights, lines 428-438: the stability classification
process_stability(data, stable_threshold, unstable_threshold) ==
    IF DataRange(data) > 0
    THEN IF RelativeStdBelow(data, stable_threshold) THEN "stable"
         ELSE IF RelativeStdBelow(data, unstable_threshold) THEN "moderately_stable"
         ELSE "unstable"
    ELSE "absent"

\* the non-missing values of the analysed column that pass the filters
DataArrays == UNION {[1..n -> DataValues] : n \in 0..MaxData}

\* list(df.columns) of the current source: "value" holds numbers, "id" text
TableColumns == <<"id", "value">>

\* a returned dict with the key 'error'; statistics tells whether the
\* statistics of lines 77-92 were started
AnalysisError(text, available_columns, statistics) ==
    [status |-> "error", error |-> text, available_columns |-> available_columns,
     statistics |-> statistics]

\* _analyze without the test of lines 56-61: df[column] raises KeyError,
\* which the handler of line 109 turns into 'Analysis failed'
analyze_unchecked_column(args) ==
    IF ~args.has_source THEN AnalysisError("No data source selected", <<>>, FALSE)
    ELSE IF Len(args.data) + args.missing + args.filtered = 0
    THEN AnalysisError("No data available for analysis", <<>>, FALSE)
    ELSE IF args.column = "" THEN AnalysisError("No column specified for analysis", <<>>, FALSE)
    ELSE AnalysisError("Analysis failed", <<>>, FALSE)

\* _analyze, lines 31-113.  The table of the current source holds the rows of
\* args.data, args.missing rows whose value is missing and args.filtered rows
\* that _apply_filters removes.
analyze(args) ==
    IF ~args.has_source THEN AnalysisError("No data source selected", <<>>, FALSE)
    ELSE IF Len(args.data) + args.missing + args.filtered = 0
    THEN AnalysisError("No data available for analysis", <<>>, FALSE)
    ELSE IF args.column = "" THEN AnalysisError("No column specified for analysis", <<>>, FALSE)
    ELSE IF \A c \in 1..Len(TableColumns) : TableColumns[c] # args.column
    THEN AnalysisError("Column not found in dataset", TableColumns, FALSE)
    ELSE IF Len(args.data) + args.missing = 0
    THEN AnalysisError("No data remaining after filtering", <<>>, FALSE)
    ELSE IF Len(args.data) = 0
    THEN AnalysisError("No valid data in column after removing NaN values", <<>>, FALSE)
    ELSE IF args.column = "id"
    THEN AnalysisError("Analysis failed", <<>>, TRUE)
    ELSE [status |-> "ok", statistics |-> TRUE,
          quality |-> perform_quality_analysis(args.data, args.usl, args.lsl),
          process_stability |-> process_stability(args.data, args.stable_threshold,
                                                  args.unstable_threshold),
          analyzed_records |-> Len(args.data),
          original_records |-> Len(args.data) + args.missing + args.filtered,
          records_after_filtering |-> Len(args.data) + args.missing]

\* The limits args.get('usl') and args.get('lsl') are absent or a float; the
\* thresholds stable_process_threshold and unstable_process_threshold of the
\* quality configuration are the defaults <<10, 25>> or <<20, 50>>, in percent.
\* Every array is analysed as the whole column "value" of the current source;
\* the arrays of at most one value are also analysed with every combination
\* of source, requested column, missing rows and filtered rows.
AnalyzeInit ==
    /\ ParseIdle /\ BuildIdle /\ FetchIdle /\ CombineIdle
    /\ apc = "ready"
    /\ \E t \in {<<10, 25>>, <<20, 50>>} :
          an_args \in [data : DataArrays,
                       usl : {PyNone, PyFloat(40), PyFloat(100)},
                       lsl : {PyNone, PyFloat(0), PyFloat(60)},
                       stable_threshold : {t[1]}, unstable_threshold : {t[2]},
                       has_source : BOOLEAN, column : {"", "id", "value", "other"},
                       missing : 0..1, filtered : 0..1]
    /\ \/ Len(an_args.data) <= 1
       \/ /\ an_args.has_source /\ an_args.column = "value"
          /\ an_args.missing = 0 /\ an_args.filtered = 0
    /\ an_ret = <<>>

\* execute with the action 'analyze', lines 25-26
Analyze ==
    /\ apc = "ready"
    /\ apc' = "done"
    /\ an_ret' = analyze(an_args)
    /\ UNCHANGED <<an_args, parseVars, buildVars, fetchVars, combineVars>>

AnalyzeNext == Analyze

SpecAnalyze == AnalyzeInit /\ [][AnalyzeNext]_vars

-----------------------------------------------------------------------------
(* Properties of the analyzer                                                *)

Analyzed == apc = "done" /\ an_ret.status = "ok"

\* r > threshold for r = std / mean * 100 of data whose mean is not 0
RsdAbove(data, threshold) ==
    LET S == SumOf(data)
        V == ScaledVariance(data)
    IN IF S > 0
       THEN threshold < 0 \/ 10000 * V > threshold * threshold * S * S
       ELSE threshold < 0 /\ 10000 * V < threshold * threshold * S * S

\* C19: the stability is classified from r = std / mean * 100: 'stable' when
\* r is below the lower threshold, 'moderately_stable' when r is between the
\* thresholds, 'unstable' when r is above the upper threshold; when the mean
\* of the analysed values is 0 no stability classification is reported.
C19_StabilityFromRelativeStd ==
    Analyzed =>
      LET data == an_args.data
          lo == an_args.stable_threshold
          hi == an_args.unstable_threshold
      IN IF SumOf(data) = 0
         THEN an_ret.process_stability = "absent"
         ELSE /\ RelativeStdBelow(data, lo) => an_ret.process_stability = "stable"
              /\ RsdAbove(data, lo) /\ RelativeStdBelow(data, hi)
                    => an_ret.process_stability = "moderately_stable"
              /\ RsdAbove(data, hi) => an_ret.process_stability = "unstable"

\* C20: when both limits are given and the population standard deviation of
\* the analysed values is 0, Cp is +infinity whatever the mean, and Cpk is
\* +infinity if lsl <= mean <= usl and 0 otherwise.
C20_ZeroDeviationIndices ==
    Analyzed /\ an_args.usl # PyNone /\ an_args.lsl # PyNone
             /\ ScaledVariance(an_args.data) = 0 =>
      LET n == Len(an_args.data)
          S == SumOf(an_args.data)
      IN /\ an_ret.quality.cp = Inf
         /\ an_ret.quality.cpk =
               IF n * an_args.lsl.v <= S /\ S <= n * an_args.usl.v THEN Inf ELSE Zero

\* C21: for every supplied limit, out_of_spec_high is the number of analysed
\* values strictly above usl and out_of_spec_low the number strictly below
\* lsl, each out-of-spec count plus its within-spec count is the number of
\* analysed values, no spec-limit field is reported for a limit that was not
\* supplied, and Cp and Cpk are reported only when both limits are supplied.
C21_SpecLimitCounts ==
    Analyzed =>
      LET data == an_args.data
          q == an_ret.quality
          above == {i \in 1..Len(data) : an_args.usl # PyNone /\ data[i] > an_args.usl.v}
          below == {i \in 1..Len(data) : an_args.lsl # PyNone /\ data[i] < an_args.lsl.v}
      IN /\ IF an_args.usl # PyNone
            THEN /\ HighKeys \subseteq q.keys
                 /\ q.out_of_spec_high = Cardinality(above)
                 /\ q.out_of_spec_high + q.within_spec_high = Len(data)
            ELSE q.keys \cap HighKeys = {}
         /\ IF an_args.lsl # PyNone
            THEN /\ LowKeys \subseteq q.keys
                 /\ q.out_of_spec_low = Cardinality(below)
                 /\ q.out_of_spec_low + q.within_spec_low = Len(data)
            ELSE q.keys \cap LowKeys = {}
         /\ IF an_args.usl # PyNone /\ an_args.lsl # PyNone
            THEN {"cpk", "cp"} \subseteq q.keys
            ELSE q.keys \cap BothKeys = {}

\* a value equal to usl is analysed next to a value above it and one below lsl
C21_Witness ==
    /\ Analyzed
    /\ an_args.usl = PyFloat(40) /\ an_args.lsl = PyFloat(60)
    /\ an_args.data = <<40, 50, 90>>
    /\ an_ret.quality.out_of_spec_high = 2
    /\ an_ret.quality.out_of_spec_low = 2

\* C22: when both limits are given and the standard deviation is positive,
\* Cp = (usl - lsl) / (6 std) and Cpk = min((usl - mean) / (3 std),
\* (mean - lsl) / (3 std)), for the mean and the population standard deviation
\* of all analysed values.  With n values of sum S and std = sqrt(V) / n the
\* quotients are n (usl - lsl) / (6 sqrt(V)), (n usl - S) / (3 sqrt(V)) and
\* (S - n lsl) / (3 sqrt(V)).
C22_CapabilityIndices ==
    Analyzed /\ an_args.usl # PyNone /\ an_args.lsl # PyNone
             /\ ScaledVariance(an_args.data) > 0 =>
      LET n == Len(an_args.data)
          S == SumOf(an_args.data)
          V == ScaledVariance(an_args.data)
          upper == n * an_args.usl.v - S
          lower == S - n * an_args.lsl.v
          q == an_ret.quality
      IN /\ q.cp = Ratio(n * (an_args.usl.v - an_args.lsl.v), 6, V)
         /\ q.cpk.kind = "finite" /\ q.cpk.k = 3 /\ q.cpk.root = V
         /\ q.cpk.num \in {upper, lower}
         /\ q.cpk.num <= upper /\ q.cpk.num <= lower

\* the mean is nearer to the lower limit than to the upper one
C22_Witness ==
    /\ Analyzed
    /\ an_args.data = <<10, 20>>
    /\ an_args.usl = PyFloat(100) /\ an_args.lsl = PyFloat(0)
    /\ an_ret.quality.cpk = Ratio(30, 3, 100)
    /\ an_ret.quality.cp = Ratio(200, 6, 100)

\* C23: analyze never raises; when the requested column is not in the
\* dataset it returns an error that lists the available columns, and when no
\* row or no non-missing value of the column remains after filtering it
\* returns an error, in every such case without computing any statistics.
C23_AnalyzeReturnsErrors ==
    /\ apc = "ready" => ENABLED Analyze
    /\ apc = "done" =>
         LET rows == Len(an_args.data) + an_args.missing + an_args.filtered
             known == \E c \in 1..Len(TableColumns) : TableColumns[c] = an_args.column
         IN /\ an_ret.status \in {"ok", "error"}
            /\ an_args.has_source /\ rows > 0 /\ an_args.column # "" /\ ~known =>
                 /\ an_ret.status = "error"
                 /\ an_ret.available_columns = TableColumns
                 /\ ~an_ret.statistics
            /\ Len(an_args.data) = 0 =>
                 an_ret.status = "error" /\ ~an_ret.statistics

\* a column that the table does not have was requested
C23_Witness ==
    /\ apc = "done"
    /\ an_args.has_source /\ an_args.column = "other" /\ Len(an_args.data) = 1
    /\ an_ret.status = "error"
    /\ an_ret.available_columns = TableColumns

-----------------------------------------------------------------------------
(* Properties of repeated and tied combinations                              *)

\* the step is a combine-lines command that stores a combined table over the
\* one a former command stored
CombinedAgain ==
    /\ HasKey(session.combined_datasets, CombinedDefaultName)
    /\ now' = now + 1
    /\ module_result'.success /\ module_result'.data.success = "true"

\* the metadata of a dataset without the time it was written
Undated(info) == [k \in DOMAIN info \ {"created_at"} |-> info[k]]

-----------------------------------------------------------------------------
(* Properties of fetch_data and of the engines of the fetch units            *)

\* fetch_data was called by unit i
CalledFetchData(i) ==
    Len(unit[i].steps) > 0 /\ unit[i].steps[Len(unit[i].steps)] = "read_sql"

\* C25: fetch_data never raises: it executes the query exactly once, passing
\* the params map to the database call when params is non-empty and passing
\* no params otherwise, and when the execution raises it returns an empty
\* table.
C25_FetchDataOneCall ==
    \A i \in Units :
       /\ unit[i].pc = "have_query" => ENABLED UnitFetchData(i)
       /\ CalledFetchData(i) =>
            LET f == unit[i].fetched IN
            /\ unit[i].pc = "done"
            /\ Len(f.calls) = 1
            /\ f.calls[1].query = unit[i].query.query
            /\ IF Len(unit[i].query.params) > 0
               THEN f.calls[1].kwargs = {"params"} /\ f.calls[1].params = unit[i].query.params
               ELSE f.calls[1].kwargs = {}
            /\ unit[i].failed = "execute" => f.df = <<>>
            /\ unit[i].failed = "" => Len(f.df) = unit[i].read

\* one unit called fetch_data without params and read rows while the
\* execution of another raised
C25_Witness ==
    \E i, j \in Units :
       /\ CalledFetchData(i) /\ unit[i].query.params = <<>> /\ unit[i].read >= 1
       /\ CalledFetchData(j) /\ unit[j].failed = "execute"

\* C26: under every interleaving of the fetch units the result of each
\* source that returned rows is in the output of fetch exactly once; the
\* results collection is appended to only after all units have finished, by
\* the orchestrating thread, so no result is lost, duplicated or seen
\* half-built.
C26_EachResultOnce ==
    /\ (frames # <<>> \/ collected # {}) =>
          /\ fpc \in {"collecting", "returned"}
          /\ \A i \in Units : unit[i].pc = "done"
    /\ Len(frames) <= Cardinality(collected)
    /\ fpc = "returned" =>
          /\ \A i \in Units : \A k \in 1..unit[i].read :
                Cardinality({j \in 1..Len(fetch_ret) :
                                fetch_ret[j].unit = i /\ fetch_ret[j].n = k}) = 1
          /\ \A j \in 1..Len(fetch_ret) :
                /\ fetch_ret[j].unit \in Units
                /\ fetch_ret[j].n \in 1..unit[fetch_ret[j].unit].read

\* two units of the same source both returned rows and both are in the output
C26_Witness ==
    /\ fpc = "returned"
    /\ Cardinality(Units) = 2
    /\ Database(1) = Database(2)
    /\ unit[1].read = MaxRows /\ unit[2].read = 1
    /\ Len(fetch_ret) = MaxRows + 1

\* C27: during a concurrent fetch each unit uses only the engine of its own
\* source, and get_engine creates at most one engine per source name and
\* always returns that same engine, also when two units request the same
\* source name at the same time.
C27_OneEnginePerSource ==
    \A i \in Units :
       unit[i].engine # NoEngine =>
          /\ unit[i].engine.db = Database(i)
          /\ \A j \in Units :
                unit[j].engine # NoEngine /\ Database(j) = Database(i)
                   => unit[j].engine = unit[i].engine
          /\ engines[Database(i)] = unit[i].engine

\* C28: in latest_wins, rows of the same identifier that have equal
\* timestamps are resolved by row-arrival order: the sort keeps them in their
\* concatenation order and the kept row is the last of them.
C28_TiesKeepLastArrival ==
    (CombineSucceeded /\ merge_strategy = "latest_wins" /\ TimestampPresent) =>
        \A i \in 1..Len(CombinedTable) : \A j, k \in 1..Len(InputRows) :
            (/\ InputRows[k] = CombinedTable[i]
             /\ InputRows[j].id = CombinedTable[i].id
             /\ InputRows[j].ts = CombinedTable[i].ts) => j <= k

-----------------------------------------------------------------------------
(* The two copies of parse_filter_string                                     *)

\* C29: the parse_filter_string of query/builder.py and that of
\* services/filter_parser.py accept the same filter strings and return the
\* same (column, operator, value), so every filter that parse_filters
\* validates is accepted by build_query and every filter that build_query
\* accepts passes parse_filters.
C29_ParsersAgree ==
    (ppc = "done" /\ validate_ret # NoValidate) =>
        /\ filter_parser_parse_filter_string(filter_str) = parse_ret
        /\ validate_ret.type = "dict" <=> parse_ret.status = "ok"

-----------------------------------------------------------------------------
(* The current source of the session                                         *)

\* C30: after any sequence of load-file, combine-files, combine-lines and use,
\* current_source is unset or the name of an entry of data_sources, and
\* whenever the last command announced a dataset as active for analysis,
\* get_current_source returns that dataset.
C30_CurrentSourceIsKnown ==
    /\ session.current_source = "" \/ HasKey(session.data_sources, session.current_source)
    /\ (stdout # <<>> /\ stdout.kind \in {"report", "using"}) =>
          /\ session.current_source = stdout.active
          /\ HasKey(session.data_sources, stdout.active)

====
